---- MODULE Spec2Model ----
(***************************************************************************)
(* Velvet: the application (src/App.tsx), its onboarding form, the key and  *)
(* the parser of the service module and the dashboard controller           *)
(* (src/components/Dashboard.tsx) as a state machine.  The React state of  *)
(* the components and the variables of the service module are the state;   *)
(* every synchronous block of a handler (from its start, or from the       *)
(* return of an awaited call, up to the next await) is one action.         *)
(* A handler reads the state of the render it was created in: an async     *)
(* function keeps the values it captured when it was called, while the     *)
(* functional updates  setX(prev => ...)  act on the latest state.         *)
(***************************************************************************)
EXTENDS Integers, Sequences, FiniteSets, TLC

\* ---------------------------------------------------------------- bounds
MaxRuns == 2          \* cycles started in one session (the mount + remixes)
MaxConcepts == 2      \* product concepts a generated draft may carry
MaxCommands == 2      \* commands the user gives to the dashboard
MaxStored == 6        \* memory events found in durable storage at mount
MaxEmpty == 1         \* image calls of one session that return no image
MaxSessions == 2      \* dashboards opened in one run (the first one and those after a reset)

\* ---------------------------------------------------------------- values
Null == {}
Some(x) == {x}
Get(s) == CHOOSE x \in s : TRUE

Names == {"ann"}

Unset == -1                    \* imageUrl: undefined
EmptyUrl == 0                  \* '' : the image call returned no image
Thrown == -2                   \* the image call rejected (it threw before its try block)
Url(r, slot) == r * 10 + slot  \* the image generated in run r for a slot (0: hero)

Stages == {"IDLE", "CALIBRATING", "PLANNING", "DRAFTING", "GENERATING_ASSETS",
           "VERIFYING", "REFINING", "COMPLETE", "DRIFT_DETECTED"}

InteractionTypes == {"REMIX", "CHAT", "VISUAL_EDIT", "COPY_EDIT", "REJECT"}

InitialProfile == [name |-> "ann", bio |-> "designer", personality |-> "ZEN",
                   interests |-> <<"tea">>, tone |-> "calm", pace |-> 1]

\* What verifyDraft may answer (any score, any flags; three representatives).
VerResults ==
  { [score |-> 60, aligned |-> FALSE, critique |-> "slow", suggestions |-> "trim",
     toneMismatch |-> FALSE, visualOverload |-> FALSE, paceFriction |-> TRUE],
    [score |-> 90, aligned |-> FALSE, critique |-> "loud", suggestions |-> "calm",
     toneMismatch |-> TRUE, visualOverload |-> TRUE, paceFriction |-> FALSE],
    [score |-> 92, aligned |-> TRUE, critique |-> "fine", suggestions |-> "none",
     toneMismatch |-> FALSE, visualOverload |-> FALSE, paceFriction |-> FALSE] }

\* Events found in storage at mount: n earlier CHAT events.
StoredEvents(n) == [i \in 1..n |-> [id |-> 0 - i, type |-> "CHAT"]]

\* ---------------------------------------------------------------- texts
\* A text is the sequence of its characters (or of its tokens).
WhiteSpace == {" ", "\n"}

\* String.prototype.trim: the text without its leading and trailing white space.
RECURSIVE Trim(_)
Trim(text) ==
  IF text = <<>> THEN <<>>
  ELSE IF Head(text) \in WhiteSpace THEN Trim(Tail(text))
  ELSE IF text[Len(text)] \in WhiteSpace THEN Trim(SubSeq(text, 1, Len(text) - 1))
  ELSE text

\* The texts of the onboarding form (name and bio) are kept whole; trim of the
\* ones that are typed here.
TrimField(text) == IF text = " " THEN "" ELSE text

\* ---------------------------------------------------------------- the key
MinKeyLength == 10

Key(n) == [i \in 1..n |-> "k"]
NoKey == <<>>

\* What getEnvKey may find in the build: nothing or a key.
EnvKeys == {NoKey, <<"e", "n", "v">>}

\* What localStorage may hold under velvet_api_key at load: nothing or a key.
StoredKeys == {Null, Some(Key(MinKeyLength + 1))}

\* What the user may type into the key prompt.
KeyInputs == {<<>>, Key(MinKeyLength), <<" ">> \o Key(MinKeyLength), Key(MinKeyLength + 1),
              <<" ">> \o Key(MinKeyLength + 2) \o <<" ">>}

\* What a caller may pass to updateApiKey.
ApiKeys == {NoKey, Key(MinKeyLength + 1)}

\* new GoogleGenAI({ apiKey })
NewClient(key) == Some([apiKey |-> key])

\* ---------------------------------------------------------------- responses
\* The outcome of an awaited call: a value, or an error.
Fulfilled(value) == [state |-> "fulfilled", value |-> value]
Rejected(message) == [state |-> "rejected", value |-> [message |-> message]]

MissingKey == "API Key missing. Please check your settings."
NotJson == "Model response was not valid JSON."
RequestFailed == "request failed"

\* {}
EmptyObject == [k \in {} |-> k]

\* The JSON documents a response may carry and the data they encode.
JsonDocs == {"{zen}"}

Decode(doc) == [personality |-> "ZEN", interests |-> <<"tea">>, tone |-> "calm", pace |-> 1]

JsonFence == "<fence json>"    \* three backquotes and the word json
Fence == "<fence>"             \* three backquotes

\* text.replace(/<fence json>\n?|\n?<fence>/g, ''): from left to right, an
\* opening fence with the line break after it, or a fence with the line break
\* before it, is removed (a line break in front of an opening fence matches
\* the second alternative, which leaves the word json in the text).
RECURSIVE StripFences(_)
StripFences(text) ==
  IF text = <<>> THEN <<>>
  ELSE IF text[1] = JsonFence
    THEN IF Len(text) >= 2 /\ text[2] = "\n" THEN StripFences(SubSeq(text, 3, Len(text)))
                                              ELSE StripFences(Tail(text))
  ELSE IF text[1] = "\n" /\ Len(text) >= 2 /\ text[2] = Fence
    THEN StripFences(SubSeq(text, 3, Len(text)))
  ELSE IF text[1] = "\n" /\ Len(text) >= 2 /\ text[2] = JsonFence
    THEN <<"json">> \o StripFences(SubSeq(text, 3, Len(text)))
  ELSE IF text[1] = Fence THEN StripFences(Tail(text))
  ELSE <<text[1]>> \o StripFences(Tail(text))

\* JSON.parse: the text must be one document.
IsJson(text) == Len(text) = 1 /\ text[1] \in JsonDocs

\* What response.text may be: undefined, or a text.
ResponseTexts ==
  { Null,
    Some(<<>>),
    Some(<<"{zen}">>),
    Some(<<" ", "{zen}", "\n">>),
    Some(<<JsonFence, "\n", "{zen}", "\n", Fence>>),
    Some(<<JsonFence, "{zen}", Fence>>),
    Some(<<Fence, "\n", "{zen}", "\n", Fence>>),
    Some(<<"\n", JsonFence, "\n", "{zen}", "\n", Fence>>),
    Some(<<JsonFence, "\n", Fence>>),
    Some(<<"\n">>),
    Some(<<"sorry">>),
    Some(<<"sorry", "\n", JsonFence, "\n", "{zen}", "\n", Fence>>) }

\* cleanAndParseJSON: {} without a text; else the data of the text without its
\* fences, or the error thrown when it does not parse.
CleanAndParseJSON(text) ==
  IF text = Null \/ Get(text) = <<>> THEN Fulfilled(EmptyObject)
  ELSE LET cleaned == Trim(StripFences(Get(text)))
       IN IF IsJson(cleaned) THEN Fulfilled(Decode(cleaned[1])) ELSE Rejected(NotJson)

\* The generative calls of the service module; the ones that return
\* cleanAndParseJSON(response.text).
ServiceCalls == {"calibratePersona", "createBlueprint", "generateDraft", "generateVisualAsset",
                 "generateProductAsset", "generateProjectThumbnail", "refineVisualAsset",
                 "remixDraft", "verifyDraft", "refineDraft", "detectPreferenceDrift",
                 "simulatePersonaChat", "mutateDesign", "polishCopy"}

StructuredCalls == {"calibratePersona", "createBlueprint", "generateDraft", "remixDraft",
                    "verifyDraft", "refineDraft", "detectPreferenceDrift", "mutateDesign"}

\* ---------------------------------------------------------------- onboarding values
\* What the user may type as a name (storage is keyed by the name as typed).
NameInputs == {"", " "} \cup Names

\* The names localStorage may hold a list for (velvet_memory_<name>): the ones
\* that may be typed, and another user's.
UserNames == NameInputs \cup {"bob"}
BioInputs == {"", "designer"}

\* The profile handleCalibration falls back to.
FallbackProfile == [personality |-> "CREATIVE", interests |-> <<"General">>,
                    tone |-> "Friendly", pace |-> 3]

Undefined == "undefined"

\* ---------------------------------------------------------------- state
VARIABLES
  userProfile, data, stage, logs, blueprint, memory, driftAlert,
  chatHistory, isChatting, isMutating, isGeneratingThumbnail, thumbnailUrl,
  storage,      \* localStorage: velvet_memory_<name>
  runs,         \* the invocations of orchestrateCreation, with their locals
  nruns,        \* how many of them have been started
  drifts,       \* the checkDrift invocations awaiting detectPreferenceDrift
  edit,         \* the handleVisualMutation / handleCopyPolish awaiting its call
  chat,         \* the handleChat awaiting simulatePersonaChat
  nextId,       \* ids handed out by crypto.randomUUID so far
  ncmds,        \* commands the user has given so far
  nempty,       \* image calls that have returned no image so far
  nfailed,      \* console.error("Image gen failed"): image requests that failed so far
  \* the service module
  envKey, apiKey, ai,
  storedKey,    \* localStorage: velvet_api_key
  call,         \* the request of a generative call that is in flight
  result,       \* how the latest generative call ended
  \* App
  profile, keyInput, hasKey,
  nsessions,    \* dashboards opened so far
  \* Onboarding
  name, bio, isCalibrating, inferredProfile,
  \* PreviewPane
  editingImage, editPrompt, isRefining, localHeroImage, localProductImages,
  refining      \* the handleRefineSubmit awaiting refineVisualAsset

vars == <<userProfile, data, stage, logs, blueprint, memory, driftAlert,
          chatHistory, isChatting, isMutating, isGeneratingThumbnail, thumbnailUrl,
          storage, runs, nruns, drifts, edit, chat, nextId, ncmds, nempty, nfailed,
          envKey, apiKey, ai, storedKey, call, result, profile, keyInput, hasKey, nsessions,
          name, bio, isCalibrating, inferredProfile,
          editingImage, editPrompt, isRefining, localHeroImage, localProductImages, refining>>

\* The state by component.
service == <<envKey, apiKey, ai, storedKey, call, result>>
app == <<profile, keyInput, hasKey, nsessions>>
onboarding == <<name, bio, isCalibrating, inferredProfile>>
preview == <<editingImage, editPrompt, isRefining, localHeroImage, localProductImages, refining>>
\* The state outside the dashboard controller.
shell == <<service, app, onboarding, preview>>
dashboard == <<userProfile, data, stage, logs, blueprint, memory, driftAlert,
               chatHistory, isChatting, isMutating, isGeneratingThumbnail, thumbnailUrl,
               runs, nruns, drifts, edit, chat>>
budgets == <<nextId, ncmds, nempty, nfailed>>

Runs == 1..MaxRuns

IdleRun == [pc |-> "idle", isRemix |-> FALSE, bp |-> Null, userProfile |-> Null,
            memory |-> <<>>, data |-> Null, currentDraft |-> Null,
            pending |-> {}, urls |-> <<>>, verification |-> Null,
            sent |-> Null]   \* the profile given to the cycle's latest call that takes one

\* A variant that reads the profile in state at the time of the call.
CallProfile_Latest(closure, latest) == latest

\* The profile createBlueprint, generateDraft, remixDraft, verifyDraft and
\* refineDraft are given by a cycle: the userProfile of the cycle's closure.
CallProfile(closure, latest) == Get(closure)

\* An invocation that has returned ("complete": through the try block,
\* "failed": through the catch block); its locals are gone.
Ended(how) == [IdleRun EXCEPT !.pc = how]

\* ---------------------------------------------------------------- helpers
\* addLog: appends the entry and sets the stage (the log is kept as the set of
\* its entries).
AddLog(lg, st, msg) == lg \cup {<<st, msg>>}

\* How many product concepts a draft comes with (the prompts ask for a fixed
\* number; a refined draft may come back with fewer).
DraftCounts == {MaxConcepts}
RefinedCounts == {MaxConcepts - 1, MaxConcepts}

\* A draft as generateDraft / remixDraft of run r returns it.
NewDraft(r, n, hp) ==
  [design |-> <<"draft", r>>,
   content |-> [headline |-> <<"draft", r>>, subheadline |-> <<"draft", r>>,
                ctaText |-> <<"draft", r>>, features |-> <<<<"draft", r>>>>,
                heroImagePrompt |-> hp, heroImageUrl |-> Unset,
                productConcepts |-> [i \in 1..n |-> [conceptName |-> Url(r, i), imageUrl |-> Unset]]],
   verification |-> Null]

\* A draft as refineDraft of run r returns it.
RefinedDraft(r, n, hp) ==
  [design |-> <<"refine", r>>,
   content |-> [headline |-> <<"refine", r>>, subheadline |-> <<"refine", r>>,
                ctaText |-> <<"refine", r>>, features |-> <<<<"refine", r>>>>,
                heroImagePrompt |-> hp, heroImageUrl |-> Unset,
                productConcepts |-> [i \in 1..n |-> [conceptName |-> Url(r, i), imageUrl |-> Unset]]],
   verification |-> Null]

\* A variant that leaves the state as it is.
PatchHero_Skipped(prev, heroUrl) == prev

\* setData(prev => prev ? {...prev, content: {...prev.content, heroImageUrl}} : null)
PatchHero(prev, heroUrl) ==
  IF prev = Null THEN Null
  ELSE Some([Get(prev) EXCEPT !.content.heroImageUrl = heroUrl])

\* newConcepts[idx] = { ...newConcepts[idx], imageUrl: url } on a copy of the array;
\* an index past the end extends the array (the skipped slots stay empty).
SetSlot(concepts, idx, url) ==
  [i \in 1..(IF idx > Len(concepts) THEN idx ELSE Len(concepts)) |->
     IF i = idx
       THEN [conceptName |-> IF i <= Len(concepts) THEN concepts[i].conceptName ELSE Unset,
             imageUrl |-> url]
     ELSE IF i <= Len(concepts) THEN concepts[i]
     ELSE [conceptName |-> Unset, imageUrl |-> Unset]]

PatchConcept(prev, idx, url) ==
  IF prev = Null THEN Null
  ELSE Some([Get(prev) EXCEPT !.content.productConcepts = SetSlot(@, idx, url)])

\* A variant that raises the score as the refinement branch does.
AttachVerification_Bumped(prev, verification) ==
  IF prev = Null THEN Null
  ELSE Some([Get(prev) EXCEPT !.verification =
               Some([verification EXCEPT !.score = IF @ + 15 < 99 THEN @ + 15 ELSE 99])])

\* setData(prev => prev ? { ...prev, verification } : null)
AttachVerification(prev, verification) ==
  IF prev = Null THEN Null
  ELSE Some([Get(prev) EXCEPT !.verification = Some(verification)])

\* A variant without the cap.
RefinedScore_Uncapped(score) == score + 15

\* Math.min(verification.score + 15, 99)
RefinedScore(score) == IF score + 15 < 99 THEN score + 15 ELSE 99

\* refinedDraft with the images of currentDraft put back and the verification
\* of the cycle, forced to aligned.
Spliced(refinedDraft, currentDraft, verification) ==
  [refinedDraft EXCEPT
     !.content.heroImageUrl = currentDraft.content.heroImageUrl,
     !.content.productConcepts =
        [i \in 1..Len(@) |->
           [@[i] EXCEPT !.imageUrl =
              IF i <= Len(currentDraft.content.productConcepts)
                THEN currentDraft.content.productConcepts[i].imageUrl
                ELSE Unset]],
     !.verification =
        Some([verification EXCEPT !.aligned = TRUE, !.score = RefinedScore(@)])]

\* The log entries of the flags of a verification result.
FlagLogs(lg, v) ==
  LET a == IF v.visualOverload THEN AddLog(lg, "VERIFYING", "Detected: Visual Overload") ELSE lg
      b == IF v.toneMismatch THEN AddLog(a, "VERIFYING", "Detected: Tone Mismatch") ELSE a
  IN IF v.paceFriction THEN AddLog(b, "VERIFYING", "Detected: Pace Friction") ELSE b

\* ---------------------------------------------------------------- initial state
\* The dashboard as constructed for an onboarded user (the useState initial
\* values), with n events of earlier sessions in storage under the user's
\* name; the key was found in storage when the module was loaded.
InitWith(n) ==
  /\ userProfile = InitialProfile
  /\ data = Null
  /\ stage = "IDLE"
  /\ logs = {}
  /\ blueprint = Null
  /\ memory = <<>>
  /\ driftAlert = Null
  /\ chatHistory = <<>>
  /\ isChatting = FALSE
  /\ isMutating = FALSE
  /\ isGeneratingThumbnail = FALSE
  /\ thumbnailUrl = Null
  /\ storage = [k \in UserNames |->
                  IF n > 0 /\ k = InitialProfile.name THEN Some(StoredEvents(n)) ELSE Null]
  /\ runs = [r \in Runs |-> IdleRun]
  /\ nruns = 0
  /\ drifts = {}
  /\ edit = Null
  /\ chat = Null
  /\ nextId = 0
  /\ ncmds = 0
  /\ nempty = 0
  /\ nfailed = 0
  /\ envKey = NoKey
  /\ storedKey = Some(Key(MinKeyLength + 1))
  /\ apiKey = Key(MinKeyLength + 1)
  /\ ai = NewClient(Key(MinKeyLength + 1))
  /\ call = Null
  /\ result = Null
  /\ profile = Some(InitialProfile)
  /\ keyInput = <<>>
  /\ hasKey = TRUE
  /\ nsessions = 1
  /\ name = ""
  /\ bio = ""
  /\ isCalibrating = FALSE
  /\ inferredProfile = Null
  /\ editingImage = Null
  /\ editPrompt = ""
  /\ isRefining = FALSE
  /\ localHeroImage = Unset
  /\ localProductImages = EmptyObject
  /\ refining = Null

\* A returning user: any number of stored events.
Init == \E n \in 0..MaxStored : InitWith(n)

\* A first session: nothing stored.
InitFresh == InitWith(0)

\* ---------------------------------------------------------------- the cycle
\* Variants of the head of orchestrateCreation: one that plans whatever it is
\* called for, one that keeps the log.
FirstCall_AlwaysPlans(isRemix, bp, mem, lg) ==
  [pc |-> "plan", stage |-> "PLANNING",
   logs |-> LET a == AddLog(lg, "PLANNING", "Analyzing vector")
            IN IF Len(mem) > 0 THEN AddLog(a, "PLANNING", "Incorporating historical vectors") ELSE a]

CycleLog_Kept(isRemix, lg) == lg

\* if (!isRemix) setLogs([]): the log a cycle starts with.
CycleLog(isRemix, lg) == IF isRemix THEN lg ELSE {}

\* The load effect: addLog('IDLE', 'Long-Horizon Memory loaded: ...') when a
\* list is stored.
LoadLog(lg, saved) ==
  IF saved # Null THEN AddLog(lg, "IDLE", "Long-Horizon Memory loaded") ELSE lg

\* orchestrateCreation from its try block to its first await, with the values
\* its closure holds: the blueprint and the memory list of the calling render.
\* Gives the call it awaits and the log.
FirstCall(isRemix, bp, mem, lg) ==
  IF ~isRemix \/ bp = Null
    THEN [pc |-> "plan", stage |-> "PLANNING",
          logs |-> LET a == AddLog(lg, "PLANNING", "Analyzing vector")
                   IN IF Len(mem) > 0 THEN AddLog(a, "PLANNING", "Incorporating historical vectors") ELSE a]
    ELSE [pc |-> "remix", stage |-> "DRAFTING",
          logs |-> AddLog(lg, "DRAFTING", "User requested alternatives. Remixing concepts...")]

\* history.slice(-10): the last events of the list, in their order.
HistoryWindow == 10

LastEvents(history, k) ==
  IF Len(history) <= k THEN history ELSE SubSeq(history, Len(history) - k + 1, Len(history))

\* The events createBlueprint puts into its prompt: the last ones of the list
\* the cycle passes, which is the memory list of the render that started it.
PlanHistory(run) == LastEvents(run.memory, HistoryWindow)

\* Variants of the catch block: one that only logs to the console (the stage
\* stays where the cycle was), one that resets the stage without a log entry.
Fail_ConsoleOnly(r) ==
  /\ runs' = [runs EXCEPT ![r] = Ended("failed")]
  /\ UNCHANGED <<logs, stage>>

Fail_NoEntry(r) ==
  /\ runs' = [runs EXCEPT ![r] = Ended("failed")]
  /\ logs' = logs
  /\ stage' = "IDLE"

\* The catch block: addLog('IDLE', 'Orchestration failed.').
Fail(r) ==
  /\ runs' = [runs EXCEPT ![r] = Ended("failed")]
  /\ logs' = AddLog(logs, "IDLE", "Orchestration failed.")
  /\ stage' = "IDLE"

\* The component mounts: the effects of the first render run in order.  The
\* stored list is loaded, the list is written back, and orchestrateCreation()
\* starts with the values of the first render (no blueprint, an empty list).
Mount ==
  /\ profile # Null
  /\ nruns = 0
  /\ LET saved == storage[userProfile.name]
         first == FirstCall(FALSE, Null, <<>>, CycleLog(FALSE, LoadLog(logs, saved)))
     IN /\ memory' = IF saved # Null THEN Get(saved) ELSE <<>>
        /\ storage' = [storage EXCEPT ![userProfile.name] = Some(memory')]
        /\ logs' = first.logs
        /\ stage' = first.stage
        /\ runs' = [runs EXCEPT ![1] = [IdleRun EXCEPT !.pc = first.pc,
                                                     !.userProfile = Some(userProfile),
                                                     !.sent = Some(CallProfile(Some(userProfile), userProfile))]]
  /\ data' = Null
  /\ blueprint' = Null
  /\ chatHistory' = <<>>
  /\ nruns' = 1
  /\ UNCHANGED <<shell, userProfile, driftAlert, isChatting, isMutating,
                 isGeneratingThumbnail, thumbnailUrl, drifts, edit, chat, nextId, ncmds, nempty, nfailed>>

\* createBlueprint returns or throws.
PlanDone(r) ==
  /\ runs[r].pc = "plan"
  /\ \/ LET bp == <<"blueprint", r>>
        IN /\ blueprint' = Some(bp)
           /\ runs' = [runs EXCEPT ![r].pc = "draft", ![r].bp = Some(bp),
                                   ![r].sent = Some(CallProfile(runs[r].userProfile, userProfile))]
           /\ logs' = AddLog(AddLog(logs, "PLANNING", "Strategy defined"),
                             "DRAFTING", "Synthesizing content")
           /\ stage' = "DRAFTING"
     \/ Fail(r) /\ UNCHANGED blueprint
  /\ UNCHANGED <<shell, userProfile, data, memory, driftAlert, chatHistory, isChatting,
                 isMutating, isGeneratingThumbnail, thumbnailUrl, storage, nruns,
                 drifts, edit, chat, nextId, ncmds, nempty, nfailed>>

\* A variant that does not await the product-image tasks.
FanOut_NoWait(run, lg, pending) ==
  [run |-> [run EXCEPT !.pc = "verify", !.pending = pending,
                       !.sent = Some(CallProfile(run.userProfile, userProfile))],
   logs |-> AddLog(AddLog(lg, "GENERATING_ASSETS", "Assets generated."),
                   "VERIFYING", "Running Vibe Engineering Audit..."),
   stage |-> "VERIFYING"]

\* The product-image requests are out (pending); when none is left
\* Promise.all resolves and verifyDraft is called.
FanOut(run, lg, pending) ==
  IF pending = {}
    THEN [run |-> [run EXCEPT !.pc = "verify", !.pending = {},
                              !.sent = Some(CallProfile(run.userProfile, userProfile))],
          logs |-> AddLog(AddLog(lg, "GENERATING_ASSETS", "Assets generated."),
                          "VERIFYING", "Running Vibe Engineering Audit..."),
          stage |-> "VERIFYING"]
    ELSE [run |-> [run EXCEPT !.pc = "assets", !.pending = pending],
          logs |-> lg,
          stage |-> "GENERATING_ASSETS"]

\* generateDraft / remixDraft returns or throws.  The draft is published, then
\* the hero image is requested, or, without a hero prompt, the product images.
DraftDone(r) ==
  /\ runs[r].pc \in {"draft", "remix"}
  /\ \/ \E n \in DraftCounts, hp \in BOOLEAN :
          LET currentDraft == NewDraft(r, n, hp)
              run == [runs[r] EXCEPT !.currentDraft = Some(currentDraft),
                                     !.urls = [i \in 1..n |-> Unset]]
              lg == AddLog(logs, "GENERATING_ASSETS", "Deploying Nano Banana Pro for visuals...")
              out == IF hp
                       THEN [run |-> [run EXCEPT !.pc = "hero"],
                             logs |-> AddLog(lg, "GENERATING_ASSETS", "Rendering Hero"),
                             stage |-> "GENERATING_ASSETS"]
                       ELSE FanOut(run, lg, 1..n)
          IN /\ data' = Some(currentDraft)
             /\ runs' = [runs EXCEPT ![r] = out.run]
             /\ logs' = out.logs
             /\ stage' = out.stage
     \/ Fail(r) /\ UNCHANGED data
  /\ UNCHANGED <<shell, userProfile, blueprint, memory, driftAlert, chatHistory, isChatting,
                 isMutating, isGeneratingThumbnail, thumbnailUrl, storage, nruns,
                 drifts, edit, chat, nextId, ncmds, nempty, nfailed>>

\* How an image request may end: an image part, a response without an image
\* part, or an error of the request (empty results are budgeted by MaxEmpty).
ImageOutcomes == {"image"} \cup (IF nempty < MaxEmpty THEN {"noparts", "error"} ELSE {})

\* Variants of the image call: one that lets the error of the request escape,
\* one that throws when the response has no image part.
ImageCall_Rethrow(r, slot, outcome) ==
  IF outcome = "image" THEN Url(r, slot)
  ELSE IF outcome = "noparts" THEN EmptyUrl
  ELSE Thrown

ImageCall_ThrowsOnEmpty(r, slot, outcome) ==
  IF outcome = "image" THEN Url(r, slot)
  ELSE IF outcome = "noparts" THEN Thrown
  ELSE EmptyUrl

\* generateVisualAsset / generateProductAsset: the first image part as a data
\* URL; without one the loop ends and '' is returned; an error of the request
\* is caught (console.error) and '' is returned as well.
ImageCall(r, slot, outcome) ==
  IF outcome = "image" THEN Url(r, slot)
  ELSE IF outcome = "noparts" THEN EmptyUrl
  ELSE EmptyUrl

\* generateVisualAsset returns: the hero is set on currentDraft and patched
\* into the latest state; the product images are requested.  (A rejected call
\* would leave the try block for the catch block.)
HeroDone(r) ==
  /\ runs[r].pc = "hero"
  /\ \E outcome \in ImageOutcomes :
       LET heroUrl == ImageCall(r, 0, outcome)
           currentDraft == [Get(runs[r].currentDraft) EXCEPT !.content.heroImageUrl = heroUrl]
           out == FanOut([runs[r] EXCEPT !.currentDraft = Some(currentDraft)], logs,
                         1..Len(currentDraft.content.productConcepts))
       IN /\ nempty' = IF outcome = "image" THEN nempty ELSE nempty + 1
          /\ nfailed' = IF outcome = "error" THEN nfailed + 1 ELSE nfailed
          /\ IF heroUrl = Thrown
               THEN Fail(r) /\ UNCHANGED data
               ELSE /\ data' = PatchHero(data, heroUrl)
                    /\ runs' = [runs EXCEPT ![r] = out.run]
                    /\ logs' = out.logs
                    /\ stage' = out.stage
  /\ UNCHANGED <<shell, userProfile, blueprint, memory, driftAlert, chatHistory, isChatting,
                 isMutating, isGeneratingThumbnail, thumbnailUrl, storage, nruns,
                 drifts, edit, chat, nextId, ncmds>>

\* generateProductAsset of concept idx returns: its then-callback patches slot
\* idx of the latest state; after the last one the cycle goes on.  (A rejected
\* call would reject Promise.all, and the await would leave for the catch block.)
ProductDone(r, idx) ==
  /\ runs[r].pc = "assets"
  /\ idx \in runs[r].pending
  /\ \E outcome \in ImageOutcomes :
       LET url == ImageCall(r, idx, outcome)
           out == FanOut([runs[r] EXCEPT !.urls[idx] = url], logs, runs[r].pending \ {idx})
       IN /\ nempty' = IF outcome = "image" THEN nempty ELSE nempty + 1
          /\ nfailed' = IF outcome = "error" THEN nfailed + 1 ELSE nfailed
          /\ IF url = Thrown
               THEN Fail(r) /\ UNCHANGED data
               ELSE /\ data' = PatchConcept(data, idx, url)
                    /\ runs' = [runs EXCEPT ![r] = out.run]
                    /\ logs' = out.logs
                    /\ stage' = IF out.run.pc = "verify" THEN out.stage ELSE stage
  /\ UNCHANGED <<shell, userProfile, blueprint, memory, driftAlert, chatHistory, isChatting,
                 isMutating, isGeneratingThumbnail, thumbnailUrl, storage, nruns,
                 drifts, edit, chat, nextId, ncmds>>

\* A variant that refines whatever the verification says.
NeedsRefine_Always(verification) == TRUE

\* if (verification.aligned) { ... } else { refine }
NeedsRefine(verification) == ~verification.aligned

\* verifyDraft returns or throws; the branch on verification.aligned.
VerifyDone(r) ==
  /\ runs[r].pc = "verify"
  /\ \/ \E verification \in VerResults :
          LET lg == FlagLogs(logs, verification)
          IN IF ~NeedsRefine(verification)
               THEN /\ logs' = AddLog(lg, "COMPLETE", "Vibe Alignment confirmed")
                    /\ stage' = "COMPLETE"
                    /\ data' = AttachVerification(data, verification)
                    /\ runs' = [runs EXCEPT ![r] = Ended("complete")]
               ELSE /\ logs' = AddLog(lg, "REFINING", "Vibe misalignment. Auto-correcting...")
                    /\ stage' = "REFINING"
                    /\ data' = data
                    /\ runs' = [runs EXCEPT ![r].pc = "refine",
                                            ![r].verification = Some(verification),
                                            ![r].sent = Some(CallProfile(runs[r].userProfile, userProfile))]
     \/ Fail(r) /\ UNCHANGED data
  /\ UNCHANGED <<shell, userProfile, blueprint, memory, driftAlert, chatHistory, isChatting,
                 isMutating, isGeneratingThumbnail, thumbnailUrl, storage, nruns,
                 drifts, edit, chat, nextId, ncmds, nempty, nfailed>>

\* refineDraft returns or throws; the refined draft replaces the draft.
RefineDone(r) ==
  /\ runs[r].pc = "refine"
  /\ \/ \E n \in RefinedCounts :
          /\ data' = Some(Spliced(RefinedDraft(r, n, TRUE), Get(runs[r].currentDraft),
                                  Get(runs[r].verification)))
          /\ logs' = AddLog(logs, "COMPLETE", "Refinement applied. Finalizing output.")
          /\ stage' = "COMPLETE"
          /\ runs' = [runs EXCEPT ![r] = Ended("complete")]
     \/ Fail(r) /\ UNCHANGED data
  /\ UNCHANGED <<shell, userProfile, blueprint, memory, driftAlert, chatHistory, isChatting,
                 isMutating, isGeneratingThumbnail, thumbnailUrl, storage, nruns,
                 drifts, edit, chat, nextId, ncmds, nempty, nfailed>>

\* ---------------------------------------------------------------- memory and drift
\* Variants of the cadence test: without the test for an empty list, and on
\* the length after the append.
DriftDue_EmptyToo(mem) == Len(mem) % 3 = 0

DriftDue_AfterAppend(mem) == (Len(mem) + 1) % 3 = 0

\* if (memory.length > 0 && memory.length % 3 === 0), on the list of the
\* calling render (the list before the append).
DriftDue(mem) == Len(mem) > 0 /\ Len(mem) % 3 = 0

\* The event recordInteraction builds: a fresh id and the type (its timestamp
\* and its two texts, detail and contextSummary, are read by no code).
NewEvent(type) == [id |-> nextId + 1, type |-> type]

\* checkDrift up to its await: addLog('IDLE', ...).
DriftLog(lg, mem) ==
  IF DriftDue(mem) THEN AddLog(lg, "IDLE", "Analyzing long-horizon preference drift...") ELSE lg

\* A variant that puts the event in front of the list.
RecordInteraction_Prepend(type) ==
  /\ memory' = <<NewEvent(type)>> \o memory
  /\ storage' = [storage EXCEPT ![userProfile.name] = Some(memory')]
  /\ nextId' = nextId + 1
  /\ drifts' = IF DriftDue(memory)
                 THEN drifts \cup {[currentHistory |-> Append(memory, NewEvent(type)),
                                    userProfile |-> userProfile]}
                 ELSE drifts

\* recordInteraction: the event is appended to the latest list (and the list is
\* written to storage by the persist effect); the drift check is started with
\* the list of the calling render plus the event.
RecordInteraction(type) ==
  /\ memory' = Append(memory, NewEvent(type))
  /\ storage' = [storage EXCEPT ![userProfile.name] = Some(memory')]
  /\ nextId' = nextId + 1
  /\ drifts' = IF DriftDue(memory)
                 THEN drifts \cup {[currentHistory |-> Append(memory, NewEvent(type)),
                                    userProfile |-> userProfile]}
                 ELSE drifts

\* What detectPreferenceDrift may answer (newProfile is optional, whatever
\* hasDrifted says, and is a part of a profile: the parsed response is taken
\* as it is).
DriftResults ==
  { [hasDrifted |-> FALSE, newProfile |-> Null, reasoning |-> "steady", detectedPattern |-> "none"],
    [hasDrifted |-> FALSE, newProfile |-> Some([pace |-> 5]), reasoning |-> "steady", detectedPattern |-> "none"],
    [hasDrifted |-> TRUE, newProfile |-> Null, reasoning |-> "faster", detectedPattern |-> "punchy"],
    [hasDrifted |-> TRUE, newProfile |-> Some([pace |-> 5]), reasoning |-> "faster", detectedPattern |-> "punchy"],
    [hasDrifted |-> TRUE, newProfile |-> Some([name |-> "bob"]), reasoning |-> "other", detectedPattern |-> "other"] }

\* detectPreferenceDrift: fewer than 2 events are answered without a call.
DriftAnswers(history) ==
  IF Len(history) < 2
    THEN {[hasDrifted |-> FALSE, newProfile |-> Null, reasoning |-> "Insufficient data", detectedPattern |-> ""]}
    ELSE DriftResults

\* A variant with the spread the other way round.
Merge_PatchLoses(prev, patch) ==
  [k \in DOMAIN prev \cup DOMAIN patch |-> IF k \in DOMAIN prev THEN prev[k] ELSE patch[k]]

\* { ...prev, ...drift.newProfile }
Merge(prev, patch) ==
  [k \in DOMAIN prev \cup DOMAIN patch |-> IF k \in DOMAIN patch THEN patch[k] ELSE prev[k]]

\* A variant that applies any patch.
DriftApplies_PatchOnly(drift) == drift.newProfile # Null

\* if (drift.hasDrifted && drift.newProfile)
DriftApplies(drift) == drift.hasDrifted /\ drift.newProfile # Null

\* The persist effect after a change of userProfile.name: the list in state is
\* written under the new name.
Persisted(store, before, after, mem) ==
  IF after.name # before.name THEN [store EXCEPT ![after.name] = Some(mem)] ELSE store

\* detectPreferenceDrift returns drift to the checkDrift invocation d.
DriftReturn(d, drift) ==
  /\ d \in drifts
  /\ drift \in DriftAnswers(d.currentHistory)
  /\ drifts' = drifts \ {d}
  /\ IF DriftApplies(drift)
       THEN /\ driftAlert' = Some([message |-> drift.reasoning, pattern |-> drift.detectedPattern])
            /\ logs' = AddLog(logs, "DRIFT_DETECTED", "Preference Drift")
            /\ stage' = "DRIFT_DETECTED"
            /\ userProfile' = Merge(userProfile, Get(drift.newProfile))
            /\ storage' = Persisted(storage, userProfile, userProfile', memory)
       ELSE UNCHANGED <<driftAlert, logs, stage, userProfile, storage>>
  /\ UNCHANGED <<shell, data, blueprint, memory, chatHistory, isChatting, isMutating,
                 isGeneratingThumbnail, thumbnailUrl, runs, nruns, edit, chat,
                 nextId, ncmds, nempty, nfailed>>

\* detectPreferenceDrift throws: the catch block writes to the console.
DriftThrow(d) ==
  /\ d \in drifts
  /\ drifts' = drifts \ {d}
  /\ UNCHANGED <<shell, userProfile, data, stage, logs, blueprint, memory, driftAlert, chatHistory,
                 isChatting, isMutating, isGeneratingThumbnail, thumbnailUrl, storage, runs,
                 nruns, edit, chat, nextId, ncmds, nempty, nfailed>>

\* detectPreferenceDrift returns or throws.
DriftDone(d) ==
  \/ \E drift \in DriftAnswers(d.currentHistory) : DriftReturn(d, drift)
  \/ DriftThrow(d)

\* The alert's close button.
DismissDrift ==
  /\ profile # Null
  /\ ncmds < MaxCommands
  /\ ncmds' = ncmds + 1
  /\ driftAlert # Null
  /\ driftAlert' = Null
  /\ UNCHANGED <<shell, userProfile, data, stage, logs, blueprint, memory, chatHistory,
                 isChatting, isMutating, isGeneratingThumbnail, thumbnailUrl, storage,
                 runs, nruns, drifts, edit, chat, nextId, nempty, nfailed>>

\* A variant that clears the list in state only.
ClearMemory_KeepsStorage ==
  /\ profile # Null
  /\ Len(memory) > 0
  /\ ncmds < MaxCommands
  /\ ncmds' = ncmds + 1
  /\ memory' = <<>>
  /\ logs' = AddLog(logs, "IDLE", "Memory Core wiped.")
  /\ stage' = "IDLE"
  /\ UNCHANGED <<shell, userProfile, data, blueprint, driftAlert, chatHistory, isChatting,
                 isMutating, isGeneratingThumbnail, thumbnailUrl, storage, runs, nruns,
                 drifts, edit, chat, nextId, nempty, nfailed>>

\* The Wipe button (shown while the list is not empty), confirmed or not: the
\* list is emptied and the stored item removed; the persist effect then writes
\* the empty list.
ClearMemory ==
  /\ profile # Null
  /\ Len(memory) > 0
  /\ \/ /\ ncmds < MaxCommands
        /\ ncmds' = ncmds + 1
        /\ memory' = <<>>
        /\ storage' = [storage EXCEPT ![userProfile.name] = Some(<<>>)]
        /\ logs' = AddLog(logs, "IDLE", "Memory Core wiped.")
        /\ stage' = "IDLE"
        /\ UNCHANGED <<shell, userProfile, data, blueprint, driftAlert, chatHistory, isChatting,
                       isMutating, isGeneratingThumbnail, thumbnailUrl, runs, nruns, drifts,
                       edit, chat, nextId, nempty, nfailed>>
     \/ UNCHANGED vars

\* ---------------------------------------------------------------- remix
\* A variant that tests the draft alone.
RemixPermitted_DraftOnly(st, d) == d # Null

\* if (stage === 'COMPLETE' && data)
RemixPermitted(st, d) == st = "COMPLETE" /\ d # Null

\* handleRemix: orchestrateCreation(true), or nothing.
HandleRemix ==
  /\ profile # Null
  /\ \/ /\ RemixPermitted(stage, data)
        /\ nruns < MaxRuns
        /\ ncmds < MaxCommands
        /\ ncmds' = ncmds + 1
        /\ RecordInteraction("REMIX")
        /\ LET first == FirstCall(TRUE, blueprint, memory, CycleLog(TRUE, DriftLog(logs, memory)))
           IN /\ logs' = first.logs
              /\ stage' = first.stage
              /\ runs' = [runs EXCEPT ![nruns + 1] =
                            [IdleRun EXCEPT !.pc = first.pc, !.isRemix = TRUE, !.bp = blueprint,
                                            !.userProfile = Some(userProfile),
                                            !.sent = Some(CallProfile(Some(userProfile), userProfile)),
                                            !.memory = memory, !.data = data]]
        /\ nruns' = nruns + 1
        /\ UNCHANGED <<shell, userProfile, data, blueprint, driftAlert, chatHistory, isChatting,
                       isMutating, isGeneratingThumbnail, thumbnailUrl, edit, chat, nempty, nfailed>>
     \/ /\ ~RemixPermitted(stage, data)
        /\ UNCHANGED vars

\* ---------------------------------------------------------------- thumbnail
\* handleGenerateThumbnail (its button is shown without a thumbnail and
\* disabled while one is generated).
HandleGenerateThumbnail ==
  /\ profile # Null
  /\ ncmds < MaxCommands
  /\ ncmds' = ncmds + 1
  /\ ~isGeneratingThumbnail
  /\ thumbnailUrl = Null
  /\ isGeneratingThumbnail' = TRUE
  /\ logs' = AddLog(logs, "GENERATING_ASSETS", "Generating Press Kit / Project Thumbnail...")
  /\ stage' = "GENERATING_ASSETS"
  /\ UNCHANGED <<shell, userProfile, data, blueprint, memory, driftAlert, chatHistory, isChatting,
                 isMutating, thumbnailUrl, storage, runs, nruns, drifts, edit, chat, nextId, nempty, nfailed>>

\* generateProjectThumbnail returns an image, returns '' or throws.
ThumbnailDone ==
  /\ isGeneratingThumbnail
  /\ isGeneratingThumbnail' = FALSE
  /\ \/ /\ thumbnailUrl' = Some("thumbnail")
        /\ logs' = AddLog(logs, "COMPLETE", "Press Kit Asset Generated.")
        /\ stage' = "COMPLETE"
     \/ UNCHANGED <<thumbnailUrl, logs, stage>>
  /\ UNCHANGED <<shell, userProfile, data, blueprint, memory, driftAlert, chatHistory, isChatting,
                 isMutating, storage, runs, nruns, drifts, edit, chat, nextId, ncmds, nempty, nfailed>>

\* The Regenerate button: setThumbnailUrl(null).
ResetThumbnail ==
  /\ profile # Null
  /\ ncmds < MaxCommands
  /\ ncmds' = ncmds + 1
  /\ thumbnailUrl # Null
  /\ thumbnailUrl' = Null
  /\ UNCHANGED <<shell, userProfile, data, stage, logs, blueprint, memory, driftAlert, chatHistory,
                 isChatting, isMutating, isGeneratingThumbnail, storage, runs, nruns,
                 drifts, edit, chat, nextId, nempty, nfailed>>

\* ---------------------------------------------------------------- studio
Instructions == {"dark mode"}
Tones == {"punchy"}
CopyTargets == {"headline", "sub"}

\* handleVisualMutation (its buttons are disabled while isMutating).
HandleVisualMutation(instruction) ==
  /\ profile # Null
  /\ ~isMutating
  /\ \/ /\ data # Null
        /\ ncmds < MaxCommands
        /\ ncmds' = ncmds + 1
        /\ isMutating' = TRUE
        /\ RecordInteraction("VISUAL_EDIT")
        /\ logs' = DriftLog(logs, memory)
        /\ stage' = IF DriftDue(memory) THEN "IDLE" ELSE stage
        /\ edit' = Some([kind |-> "visual", target |-> "design", input |-> Get(data).design,
                         instruction |-> instruction])
        /\ UNCHANGED <<shell, userProfile, data, blueprint, driftAlert, chatHistory, isChatting,
                       isGeneratingThumbnail, thumbnailUrl, runs, nruns, chat, nempty, nfailed>>
     \/ /\ data = Null
        /\ UNCHANGED vars

\* handleCopyPolish (same buttons' flag); the text is read from the draft of
\* the calling render.
HandleCopyPolish(type, tone) ==
  /\ profile # Null
  /\ ~isMutating
  /\ \/ /\ data # Null
        /\ ncmds < MaxCommands
        /\ ncmds' = ncmds + 1
        /\ isMutating' = TRUE
        /\ RecordInteraction("COPY_EDIT")
        /\ logs' = DriftLog(logs, memory)
        /\ stage' = IF DriftDue(memory) THEN "IDLE" ELSE stage
        /\ edit' = Some([kind |-> "copy", target |-> type,
                         input |-> IF type = "headline" THEN Get(data).content.headline
                                                        ELSE Get(data).content.subheadline,
                         instruction |-> tone])
        /\ UNCHANGED <<shell, userProfile, data, blueprint, driftAlert, chatHistory, isChatting,
                       isGeneratingThumbnail, thumbnailUrl, runs, nruns, chat, nempty, nfailed>>
     \/ /\ data = Null
        /\ UNCHANGED vars

\* A variant that also drops the verification of the draft.
ReplaceDesign_Unverified(prev, newDesign) ==
  IF prev = Null THEN Null
  ELSE Some([Get(prev) EXCEPT !.design = newDesign, !.verification = Null])

\* setData(prev => prev ? { ...prev, design: newDesign } : null)
ReplaceDesign(prev, newDesign) ==
  IF prev = Null THEN Null ELSE Some([Get(prev) EXCEPT !.design = newDesign])

\* A variant that writes the new text to both text fields.
ReplaceCopy_Both(prev, type, newText) ==
  IF prev = Null THEN Null
  ELSE Some([Get(prev) EXCEPT !.content.headline = newText, !.content.subheadline = newText])

\* setData(prev => ... headline / subheadline of type replaced by newText)
ReplaceCopy(prev, type, newText) ==
  IF prev = Null THEN Null
  ELSE Some([Get(prev) EXCEPT
               !.content.headline = IF type = "headline" THEN newText ELSE @,
               !.content.subheadline = IF type = "sub" THEN newText ELSE @])

\* What mutateDesign may return for an instruction: a design system.
MutateDesign(currentDesign, instruction) == {<<"mutate", instruction>>}

\* What polishCopy may return, response.text || text: the rewritten text, or
\* the text it was given when the response has none.
PolishCopy(text, tone) == {<<"polish", tone>>, text}

\* mutateDesign / polishCopy returns: the result is patched into the latest
\* draft and addLog('REFINING', ...) is called; finally the flag is cleared.
EditReturn ==
  /\ edit # Null
  /\ edit' = Null
  /\ isMutating' = FALSE
  /\ LET e == Get(edit)
     IN /\ IF e.kind = "visual"
             THEN \E newDesign \in MutateDesign(e.input, e.instruction) :
                    data' = ReplaceDesign(data, newDesign)
             ELSE \E newText \in PolishCopy(e.input, e.instruction) :
                    data' = ReplaceCopy(data, e.target, newText)
        /\ logs' = AddLog(logs, "REFINING",
                          IF e.kind = "visual" THEN "Visual mutation applied" ELSE "Copy polished")
        /\ stage' = "REFINING"
  /\ UNCHANGED <<shell, userProfile, blueprint, memory, driftAlert, chatHistory, isChatting,
                 isGeneratingThumbnail, thumbnailUrl, storage, runs, nruns, drifts, chat, nextId, ncmds, nempty, nfailed>>

\* mutateDesign / polishCopy throws: the catch block writes to the console;
\* finally the flag is cleared.
EditThrow ==
  /\ edit # Null
  /\ edit' = Null
  /\ isMutating' = FALSE
  /\ UNCHANGED <<shell, userProfile, data, stage, logs, blueprint, memory, driftAlert, chatHistory, isChatting,
                 isGeneratingThumbnail, thumbnailUrl, storage, runs, nruns, drifts, chat, nextId, ncmds, nempty, nfailed>>

\* mutateDesign / polishCopy returns or throws.
EditDone ==
  \/ EditReturn
  \/ EditThrow

\* ---------------------------------------------------------------- persona chat
\* A message is the sequence of its characters.
Messages == {<<>>, <<" ">>, <<"h", "i", " ">>}

\* A variant of the guard that tests the text as typed.
ChatAccepted_Untrimmed(chatInput, d) == chatInput # <<>> /\ d # Null

\* if (!chatInput.trim() || !data) return;
ChatAccepted(chatInput, d) == Trim(chatInput) # <<>> /\ d # Null

\* handleChat (the form is disabled while isChatting): the message as typed
\* goes to the history and to the call.
HandleChat(chatInput) ==
  /\ profile # Null
  /\ ~isChatting
  /\ \/ /\ ChatAccepted(chatInput, data)
        /\ ncmds < MaxCommands
        /\ ncmds' = ncmds + 1
        /\ chatHistory' = Append(chatHistory, [role |-> "user", text |-> chatInput])
        /\ isChatting' = TRUE
        /\ RecordInteraction("CHAT")
        /\ logs' = DriftLog(logs, memory)
        /\ stage' = IF DriftDue(memory) THEN "IDLE" ELSE stage
        /\ chat' = Some([userMsg |-> chatInput])
        /\ UNCHANGED <<shell, userProfile, data, blueprint, driftAlert, isMutating,
                       isGeneratingThumbnail, thumbnailUrl, runs, nruns, edit, nempty, nfailed>>
     \/ /\ ~ChatAccepted(chatInput, data)
        /\ UNCHANGED vars

\* What simulatePersonaChat may return: response.text || "...".
Replies == {<<"o", "k">>, <<".", ".", ".">>}

\* setChatHistory(prev => [...prev, { role: 'persona', text: response }])
AppendReply(prev, response) == Append(prev, [role |-> "persona", text |-> response])

\* simulatePersonaChat returns: the reply is appended; finally the flag is cleared.
ChatReturn(response) ==
  /\ chat # Null
  /\ chat' = Null
  /\ isChatting' = FALSE
  /\ chatHistory' = AppendReply(chatHistory, response)
  /\ UNCHANGED <<shell, userProfile, data, stage, logs, blueprint, memory, driftAlert, isMutating,
                 isGeneratingThumbnail, thumbnailUrl, storage, runs, nruns, drifts, edit, nextId, ncmds, nempty, nfailed>>

\* simulatePersonaChat throws: the catch block writes to the console; finally
\* the flag is cleared.
ChatThrow ==
  /\ chat # Null
  /\ chat' = Null
  /\ isChatting' = FALSE
  /\ UNCHANGED <<shell, userProfile, data, stage, logs, blueprint, memory, driftAlert, chatHistory, isMutating,
                 isGeneratingThumbnail, thumbnailUrl, storage, runs, nruns, drifts, edit, nextId, ncmds, nempty, nfailed>>

\* simulatePersonaChat returns or throws.
ChatDone ==
  \/ \E response \in Replies : ChatReturn(response)
  \/ ChatThrow

\* ---------------------------------------------------------------- the preview pane
\* What the user may type as the instruction of an image edit.
Prompts == {"", "sunset"}

\* The image refineVisualAsset makes of an image.
Refined(url) == url + 100

\* url is a non-empty string.
Truthy(url) == url # Unset /\ url # EmptyUrl

\* The pane shows the draft unless isLoading (stage !== 'COMPLETE' && !data).
PreviewShown == profile # Null /\ data # Null

\* currentHero = localHeroImage || content.heroImageUrl
ShownHero ==
  IF Truthy(localHeroImage) THEN localHeroImage ELSE Get(data).content.heroImageUrl

\* imgUrl = localProductImages[idx] || concept.imageUrl
ShownProduct(idx) ==
  IF idx \in DOMAIN localProductImages /\ Truthy(localProductImages[idx])
    THEN localProductImages[idx]
    ELSE Get(data).content.productConcepts[idx].imageUrl

\* The image shown in a slot of the draft (0: the hero).
Shown(slot) == IF slot = 0 THEN ShownHero ELSE ShownProduct(slot)

\* The Edit button of a shown image: setEditingImage({url, type, index}).
SetEditingImage(slot) ==
  /\ PreviewShown
  /\ editingImage = Null
  /\ slot <= Len(Get(data).content.productConcepts)
  /\ Truthy(Shown(slot))
  /\ editingImage' = Some([url |-> Shown(slot),
                           type |-> IF slot = 0 THEN "hero" ELSE "product",
                           index |-> slot])
  /\ UNCHANGED <<dashboard, storage, budgets, service, app, onboarding,
                 editPrompt, isRefining, localHeroImage, localProductImages, refining>>

\* The Cancel button of the modal: setEditingImage(null).
CancelEditing ==
  /\ PreviewShown
  /\ editingImage # Null
  /\ editingImage' = Null
  /\ UNCHANGED <<dashboard, storage, budgets, service, app, onboarding,
                 editPrompt, isRefining, localHeroImage, localProductImages, refining>>

\* The input of the modal.
SetEditPrompt(text) ==
  /\ PreviewShown
  /\ editingImage # Null
  /\ editPrompt' = text
  /\ UNCHANGED <<dashboard, storage, budgets, service, app, onboarding,
                 editingImage, isRefining, localHeroImage, localProductImages, refining>>

\* handleRefineSubmit up to its await (its button is in the modal, disabled
\* while isRefining and without an instruction).
HandleRefineSubmit ==
  /\ PreviewShown
  /\ editingImage # Null /\ editPrompt # "" /\ ~isRefining
  /\ ncmds < MaxCommands
  /\ ncmds' = ncmds + 1
  /\ isRefining' = TRUE
  /\ refining' = editingImage
  /\ UNCHANGED <<dashboard, storage, nextId, nempty, nfailed, service, app, onboarding,
                 editingImage, editPrompt, localHeroImage, localProductImages>>

\* { ...prev, [index]: newUrl }
SetLocal(prev, index, newUrl) ==
  [k \in DOMAIN prev \cup {index} |-> IF k = index THEN newUrl ELSE prev[k]]

\* refineVisualAsset returns the edited image, or the image it was given when
\* the request failed or brought no image: the result is kept for the slot
\* that was edited, and the modal is closed.
RefineSubmitDone ==
  /\ refining # Null
  /\ \E newUrl \in {Refined(Get(refining).url), Get(refining).url} :
       IF Get(refining).type = "hero"
         THEN /\ localHeroImage' = newUrl
              /\ UNCHANGED localProductImages
         ELSE /\ localProductImages' = SetLocal(localProductImages, Get(refining).index, newUrl)
              /\ UNCHANGED localHeroImage
  /\ editingImage' = Null
  /\ editPrompt' = ""
  /\ isRefining' = FALSE
  /\ refining' = Null
  /\ UNCHANGED <<dashboard, storage, budgets, service, app, onboarding>>

\* ---------------------------------------------------------------- the service module
\* hasApiKey: !!apiKey && apiKey.length > 0
HasApiKey == apiKey # NoKey /\ Len(apiKey) > 0

\* updateApiKey: nothing without a key; else the key is kept, stored, and a
\* client is made for it.
UpdateApiKey(key) ==
  IF key = NoKey
    THEN UNCHANGED <<apiKey, storedKey, ai>>
    ELSE /\ apiKey' = key
         /\ storedKey' = Some(key)
         /\ ai' = NewClient(key)

\* A call of updateApiKey by any importer of the module.
UpdateApiKeyCalled(key) ==
  /\ UpdateApiKey(key)
  /\ UNCHANGED <<dashboard, preview, storage, budgets, envKey, call, result, app, onboarding>>

\* clearLocalKey: the stored key is removed, and the key in use is dropped
\* unless it came with the build; the client is left as it is.
ClearLocalKey ==
  /\ storedKey' = Null
  /\ apiKey' = IF envKey = NoKey THEN NoKey ELSE apiKey
  /\ UNCHANGED <<dashboard, preview, storage, budgets, envKey, ai, call, result, app, onboarding>>

\* A generative call fn up to its await: without a client it throws, with
\* one its request goes out with the key of the client.
Generate(fn) ==
  /\ call = Null
  /\ IF ai = Null
       THEN /\ result' = Some(Rejected(MissingKey))
            /\ call' = Null
       ELSE /\ result' = Null
            /\ call' = Some([fn |-> fn, apiKey |-> Get(ai).apiKey])
  /\ UNCHANGED <<dashboard, preview, storage, budgets, envKey, apiKey, ai, storedKey, app, onboarding>>

\* The request of a structured call is answered with a response: the call
\* returns what cleanAndParseJSON makes of its text.
Respond(text) ==
  /\ call # Null
  /\ Get(call).fn \in StructuredCalls
  /\ call' = Null
  /\ result' = Some(CleanAndParseJSON(text))
  /\ UNCHANGED <<dashboard, preview, storage, budgets, envKey, apiKey, ai, storedKey, app, onboarding>>

\* The request of another call is answered, or a request fails (the results
\* of these calls are taken up where the dashboard awaits them).
RequestEnds ==
  /\ call # Null
  /\ call' = Null
  /\ \/ /\ Get(call).fn \notin StructuredCalls
        /\ result' = Some(Fulfilled([fn |-> Get(call).fn]))
     \/ result' = Some(Rejected(RequestFailed))
  /\ UNCHANGED <<dashboard, preview, storage, budgets, envKey, apiKey, ai, storedKey, app, onboarding>>

\* ---------------------------------------------------------------- the key prompt
\* The prompt is shown while hasKey is false.
SetKeyInput(text) ==
  /\ ~hasKey
  /\ keyInput' = text
  /\ UNCHANGED <<dashboard, preview, storage, budgets, service, profile, hasKey, nsessions, onboarding>>

\* A variant with the test of the button.
KeyAccepted_AsButton(text) == Len(text) >= MinKeyLength

\* if (keyInput.trim().length > 10)
KeyAccepted(text) == Len(Trim(text)) > MinKeyLength

\* handleSaveKey (its button is disabled while keyInput.length < 10).
HandleSaveKey ==
  /\ ~hasKey
  /\ Len(keyInput) >= MinKeyLength
  /\ IF KeyAccepted(keyInput)
       THEN /\ UpdateApiKey(Trim(keyInput))
            /\ hasKey' = TRUE
       ELSE UNCHANGED <<apiKey, storedKey, ai, hasKey>>
  /\ UNCHANGED <<dashboard, preview, storage, budgets, envKey, call, result, profile, keyInput, nsessions,
                 onboarding>>

\* ---------------------------------------------------------------- onboarding
\* The form is shown, with a key and without a profile, until a profile is inferred.
FormShown == hasKey /\ profile = Null /\ inferredProfile = Null

SetName(text) ==
  /\ FormShown
  /\ name' = text
  /\ UNCHANGED <<dashboard, preview, storage, budgets, service, app, bio, isCalibrating, inferredProfile>>

SetBio(text) ==
  /\ FormShown
  /\ bio' = text
  /\ UNCHANGED <<dashboard, preview, storage, budgets, service, app, name, isCalibrating, inferredProfile>>

\* A variant of the catch block without the fallback.
Calibrated_NoFallback(outcome) ==
  IF outcome.state = "rejected" THEN Null ELSE Some(outcome.value)

\* setInferredProfile(data) in the try block, setInferredProfile(fallback) in
\* the catch block.
Calibrated(outcome) ==
  IF outcome.state = "rejected" THEN Some(FallbackProfile) ELSE Some(outcome.value)

\* A variant with the test of the button.
CalibrationAccepted_AsButton(bioText, nameText) == bioText # "" /\ nameText # ""

\* if (!bio.trim() || !name.trim()) return;
CalibrationAccepted(bioText, nameText) == TrimField(bioText) # "" /\ TrimField(nameText) # ""

\* handleCalibration (its button is disabled while isCalibrating and without
\* a name or a bio).  Without a client calibratePersona throws at once, and the
\* catch and finally blocks run before anything else.
HandleCalibration ==
  /\ FormShown
  /\ ~isCalibrating /\ bio # "" /\ name # ""
  /\ \/ /\ CalibrationAccepted(bio, name)
        /\ IF ai = Null
             THEN /\ inferredProfile' = Calibrated(Rejected(MissingKey))
                  /\ isCalibrating' = FALSE
             ELSE /\ inferredProfile' = inferredProfile
                  /\ isCalibrating' = TRUE
        /\ UNCHANGED <<dashboard, preview, storage, budgets, service, app, name, bio>>
     \/ /\ ~CalibrationAccepted(bio, name)
        /\ UNCHANGED vars

\* calibratePersona returns cleanAndParseJSON(response.text) or throws (the
\* parser's error, or the error of the request).
CalibrationOutcomes == {CleanAndParseJSON(text) : text \in ResponseTexts} \cup {Rejected(RequestFailed)}

CalibrationDone(outcome) ==
  /\ isCalibrating
  /\ inferredProfile' = Calibrated(outcome)
  /\ isCalibrating' = FALSE
  /\ UNCHANGED <<dashboard, preview, storage, budgets, service, app, name, bio>>

\* The Recalibrate link of the review.
Recalibrate ==
  /\ hasKey /\ profile = Null /\ inferredProfile # Null
  /\ inferredProfile' = Null
  /\ UNCHANGED <<dashboard, preview, storage, budgets, service, app, name, bio, isCalibrating>>

\* The profile handleConfirm completes with: inferredProfile.personality!,
\* interests || [], tone || 'Neutral', pace || 3.
ConfirmedProfile(inferred) ==
  [name |-> name,
   bio |-> bio,
   personality |-> IF "personality" \in DOMAIN inferred THEN inferred.personality ELSE Undefined,
   interests |-> IF "interests" \in DOMAIN inferred THEN inferred.interests ELSE <<>>,
   tone |-> IF "tone" \in DOMAIN inferred /\ inferred.tone # "" THEN inferred.tone ELSE "Neutral",
   pace |-> IF "pace" \in DOMAIN inferred /\ inferred.pace # 0 THEN inferred.pace ELSE 3]

\* handleConfirm of the review: onComplete(profile) sets the profile of App,
\* which replaces the onboarding form by a dashboard constructed for it.
HandleConfirm ==
  /\ hasKey /\ profile = Null /\ inferredProfile # Null
  /\ \/ /\ name # ""
        /\ nsessions < MaxSessions
        /\ nsessions' = nsessions + 1
        /\ profile' = Some(ConfirmedProfile(Get(inferredProfile)))
        /\ userProfile' = ConfirmedProfile(Get(inferredProfile))
        /\ name' = ""
        /\ bio' = ""
        /\ isCalibrating' = FALSE
        /\ inferredProfile' = Null
        /\ UNCHANGED <<data, stage, logs, blueprint, memory, driftAlert, chatHistory, isChatting,
                       isMutating, isGeneratingThumbnail, thumbnailUrl, runs, nruns, drifts,
                       edit, chat, preview, storage, budgets, service, keyInput, hasKey>>
     \/ /\ name = ""
        /\ UNCHANGED vars

\* A variant that also removes the stored list of the user.
HandleReset_ForgetsMemory ==
  /\ profile # Null
  /\ profile' = Null
  /\ storage' = [storage EXCEPT ![userProfile.name] = Null]
  /\ data' = Null
  /\ stage' = "IDLE"
  /\ logs' = {}
  /\ blueprint' = Null
  /\ memory' = <<>>
  /\ driftAlert' = Null
  /\ chatHistory' = <<>>
  /\ isChatting' = FALSE
  /\ isMutating' = FALSE
  /\ isGeneratingThumbnail' = FALSE
  /\ thumbnailUrl' = Null
  /\ runs' = [r \in Runs |-> IdleRun]
  /\ nruns' = 0
  /\ drifts' = {}
  /\ edit' = Null
  /\ chat' = Null
  /\ editingImage' = Null
  /\ editPrompt' = ""
  /\ isRefining' = FALSE
  /\ localHeroImage' = Unset
  /\ localProductImages' = EmptyObject
  /\ refining' = Null
  /\ UNCHANGED <<userProfile, budgets, service, keyInput, hasKey, nsessions, onboarding>>

\* handleReset (the dashboard's reset button): the profile of App is cleared,
\* the dashboard is replaced by a new onboarding form.  The state of the
\* dashboard and of its preview pane is gone with it (its variables are at their initial values until
\* the next one is constructed), and no step of its handlers is left.
HandleReset ==
  /\ profile # Null
  /\ profile' = Null
  /\ data' = Null
  /\ stage' = "IDLE"
  /\ logs' = {}
  /\ blueprint' = Null
  /\ memory' = <<>>
  /\ driftAlert' = Null
  /\ chatHistory' = <<>>
  /\ isChatting' = FALSE
  /\ isMutating' = FALSE
  /\ isGeneratingThumbnail' = FALSE
  /\ thumbnailUrl' = Null
  /\ runs' = [r \in Runs |-> IdleRun]
  /\ nruns' = 0
  /\ drifts' = {}
  /\ edit' = Null
  /\ chat' = Null
  /\ editingImage' = Null
  /\ editPrompt' = ""
  /\ isRefining' = FALSE
  /\ localHeroImage' = Unset
  /\ localProductImages' = EmptyObject
  /\ refining' = Null
  /\ UNCHANGED <<userProfile, storage, budgets, service, keyInput, hasKey, nsessions, onboarding>>

\* ---------------------------------------------------------------- next-state relation
CycleStep(r) ==
  \/ PlanDone(r)
  \/ DraftDone(r)
  \/ HeroDone(r)
  \/ \E idx \in 1..MaxConcepts : ProductDone(r, idx)
  \/ VerifyDone(r)
  \/ RefineDone(r)

\* The cycles: the mount and the completions of the awaited calls.
Cycles ==
  \/ Mount
  \/ \E r \in Runs : CycleStep(r)

\* The user's commands, by the tab of the sidebar that offers them.
SystemCommands ==
  \/ HandleGenerateThumbnail
  \/ ThumbnailDone
  \/ ResetThumbnail

StudioCommands ==
  \/ \E instruction \in Instructions : HandleVisualMutation(instruction)
  \/ \E type \in CopyTargets, tone \in Tones : HandleCopyPolish(type, tone)
  \/ EditDone

PersonaCommands ==
  \/ \E chatInput \in Messages : HandleChat(chatInput)
  \/ ChatDone

MemoryCommands ==
  \/ \E d \in drifts : DriftDone(d)
  \/ DismissDrift
  \/ ClearMemory

\* The image edits of the preview pane.
PreviewCommands ==
  \/ \E slot \in 0..MaxConcepts : SetEditingImage(slot)
  \/ CancelEditing
  \/ \E text \in Prompts : SetEditPrompt(text)
  \/ HandleRefineSubmit
  \/ RefineSubmitDone

\* The calls of the service module's exports by any importer.
ServiceOperations ==
  \/ \E key \in ApiKeys : UpdateApiKeyCalled(key)
  \/ ClearLocalKey
  \/ \E fn \in ServiceCalls : Generate(fn)
  \/ \E text \in ResponseTexts : Respond(text)
  \/ RequestEnds

KeyCommands ==
  \/ \E text \in KeyInputs : SetKeyInput(text)
  \/ HandleSaveKey

OnboardingCommands ==
  \/ \E text \in NameInputs : SetName(text)
  \/ \E text \in BioInputs : SetBio(text)
  \/ HandleCalibration
  \/ \E outcome \in CalibrationOutcomes : CalibrationDone(outcome)
  \/ Recalibrate
  \/ HandleConfirm

\* Every interleaving of the cycles with all the user's commands.
Next ==
  \/ Cycles
  \/ HandleRemix
  \/ SystemCommands
  \/ StudioCommands
  \/ PersonaCommands
  \/ MemoryCommands
  \/ PreviewCommands
  \/ ServiceOperations
  \/ KeyCommands
  \/ OnboardingCommands
  \/ HandleReset

Spec == Init /\ [][Next]_vars

\* The application as loaded: the key is taken from the build or from storage,
\* no profile yet, nothing stored for the user.
InitApp ==
  /\ envKey \in EnvKeys
  /\ storedKey \in StoredKeys
  /\ apiKey = IF envKey # NoKey THEN envKey
              ELSE IF storedKey # Null /\ Get(storedKey) # NoKey THEN Get(storedKey)
              ELSE NoKey
  /\ ai = IF apiKey # NoKey THEN NewClient(apiKey) ELSE Null
  /\ call = Null
  /\ result = Null
  /\ profile = Null
  /\ keyInput = <<>>
  /\ hasKey = HasApiKey
  /\ nsessions = 0
  /\ name = ""
  /\ bio = ""
  /\ isCalibrating = FALSE
  /\ inferredProfile = Null
  /\ userProfile = InitialProfile
  /\ data = Null
  /\ stage = "IDLE"
  /\ logs = {}
  /\ blueprint = Null
  /\ memory = <<>>
  /\ driftAlert = Null
  /\ chatHistory = <<>>
  /\ isChatting = FALSE
  /\ isMutating = FALSE
  /\ isGeneratingThumbnail = FALSE
  /\ thumbnailUrl = Null
  /\ storage = [k \in UserNames |-> Null]
  /\ runs = [r \in Runs |-> IdleRun]
  /\ nruns = 0
  /\ drifts = {}
  /\ edit = Null
  /\ chat = Null
  /\ nextId = 0
  /\ ncmds = 0
  /\ nempty = 0
  /\ nfailed = 0
  /\ editingImage = Null
  /\ editPrompt = ""
  /\ isRefining = FALSE
  /\ localHeroImage = Unset
  /\ localProductImages = EmptyObject
  /\ refining = Null

\* The application up to the dashboard: the key prompt, the onboarding form,
\* the reset, and the service module used by any importer.
NextApp == ServiceOperations \/ KeyCommands \/ OnboardingCommands \/ HandleReset
SpecApp == InitApp /\ [][NextApp]_vars

\* The application as its user drives it: the key prompt, the onboarding form,
\* the cycles of the dashboard and the reset.
NextGate == KeyCommands \/ OnboardingCommands \/ Cycles \/ HandleReset
SpecGate == InitApp /\ [][NextGate]_vars

\* A returning user's sessions: the cycle, the persona chat and the drift
\* checks of a dashboard, the reset and the next onboarding.
NextSession == Cycles \/ PersonaCommands \/ MemoryCommands \/ OnboardingCommands \/ HandleReset
SpecSession == Init /\ [][NextSession]_vars

\* A first session with remix and the commands of the system tab.
NextSystem == Cycles \/ HandleRemix \/ SystemCommands
SpecSystem == InitFresh /\ [][NextSystem]_vars

\* The same, where every awaited call of a cycle returns or throws.
FairSystem == SpecSystem /\ \A r \in Runs : WF_vars(CycleStep(r))

\* A first session with remix and the commands of the studio tab.
NextStudio == Cycles \/ HandleRemix \/ StudioCommands
SpecStudio == InitFresh /\ [][NextStudio]_vars

\* A first session with remix and the image edits of the preview pane.
NextPreview == Cycles \/ HandleRemix \/ PreviewCommands
SpecPreview == InitFresh /\ [][NextPreview]_vars

\* A returning user's session with the commands that record interactions,
\* the drift checks they start and the memory wipe.
NextMemory == Cycles \/ StudioCommands \/ PersonaCommands \/ MemoryCommands
SpecMemory == Init /\ [][NextMemory]_vars

\* A returning user's session with every command that records an interaction
\* (remix, chat, visual mutation, copy polish) and the memory wipe.
NextTracked == Cycles \/ HandleRemix \/ StudioCommands \/ PersonaCommands \/ ClearMemory
SpecTracked == Init /\ [][NextTracked]_vars

\* ================================================================ properties
InFlight(r) == runs[r].pc \notin {"idle", "complete", "failed"}
Returned(r) == runs[r].pc \in {"complete", "failed"}

\* The step in which cycle r returns through its try block, and through its
\* catch block.
Completes(r) == InFlight(r) /\ runs'[r].pc = "complete"
Fails(r) == InFlight(r) /\ runs'[r].pc = "failed"

\* The step in which the awaited refineDraft of cycle r returns.
Refines(r) == runs[r].pc = "refine" /\ runs'[r].pc = "complete"

\* The step in which the last product-image task of cycle r completes.
FanOutEnds(r) == runs[r].pc = "assets" /\ runs'[r].pc = "verify"

\* A step that records an interaction.
Records == nextId' = nextId + 1

\* C1: at most one cycle is in flight at any time (a remix is never accepted
\* while an earlier cycle still has pending steps).
C1_OneCycleInFlight == Cardinality({r \in Runs : InFlight(r)}) <= 1

\* C2: every cycle whose awaited calls all return or throw returns, and the
\* step in which it returns leaves the stage at COMPLETE or IDLE, not at an
\* intermediate value.
C2_CycleEnds ==
  /\ \A r \in Runs : InFlight(r) ~> Returned(r)
  /\ [][\A r \in Runs : (InFlight(r) /\ Returned(r)') => stage' \in {"COMPLETE", "IDLE"}]_vars

C2_Witness ==
  /\ runs[1].pc = "complete"
  /\ stage = "COMPLETE"
  /\ data # Null
  /\ Get(data).verification # Null

\* C3: a remix starts a cycle (and the stage leaves COMPLETE) only when the
\* stage is COMPLETE and a draft exists; a remix request in any other state
\* changes nothing.
C3_RemixGuard ==
  [][/\ (nruns > 0 /\ nruns' = nruns + 1) =>
          /\ stage = "COMPLETE" /\ data # Null
          /\ stage' # "COMPLETE"
          /\ runs'[nruns'].pc \in {"plan", "remix"}
     /\ (HandleRemix /\ ~(stage = "COMPLETE" /\ data # Null)) => UNCHANGED vars]_vars

C3_Witness ==
  /\ nruns = 2
  /\ runs[2].isRemix
  /\ runs[2].pc = "remix"
  /\ stage = "DRAFTING"

\* C4: when the fan-out of a cycle has finished, concept i of the published
\* draft carries the URL produced for concept i of that cycle, and a
\* completion changes no other concept's entry.
C4_SlotIsolation ==
  [][\A r \in Runs :
       /\ FanOutEnds(r) =>
            /\ data' # Null
            /\ \A i \in DOMAIN runs'[r].urls :
                 /\ i <= Len(Get(data').content.productConcepts)
                 /\ Get(data').content.productConcepts[i].imageUrl = runs'[r].urls[i]
       /\ \A idx \in 1..MaxConcepts :
            (ProductDone(r, idx) /\ data # Null) =>
               /\ data' # Null
               /\ \A j \in 1..Len(Get(data).content.productConcepts) :
                    j # idx => Get(data').content.productConcepts[j] = Get(data).content.productConcepts[j]]_vars

\* C5: the draft stored after refinement carries the hero image and, for every
\* concept index, the product image generated in the asset phase of the cycle.
C5_ImagesSplicedBack ==
  [][\A r \in Runs :
       Refines(r) =>
         /\ data' # Null
         /\ Get(data').content.heroImageUrl = Get(runs[r].currentDraft).content.heroImageUrl
         /\ \A i \in 1..Len(Get(data').content.productConcepts) :
              i \in DOMAIN runs[r].urls =>
                Get(data').content.productConcepts[i].imageUrl = runs[r].urls[i]]_vars

\* C6: for a verification with aligned = false and score S, the verification
\* stored after refinement has score min(S + 15, 99) and aligned = true, its
\* other fields unchanged, and the log holds a REFINING entry.
C6_RefinedVerification ==
  [][\A r \in Runs :
       Refines(r) =>
         LET before == Get(runs[r].verification)
             after == Get(Get(data').verification)
         IN /\ ~before.aligned
            /\ after.aligned
            /\ after.score <= 99
            /\ after.score = before.score + 15 \/ (after.score = 99 /\ before.score + 15 >= 99)
            /\ \A f \in {"critique", "suggestions", "toneMismatch", "visualOverload", "paceFriction"} :
                 after[f] = before[f]
            /\ \E entry \in logs' : entry[1] = "REFINING"]_vars

C6_Witness ==
  /\ runs[1].pc = "complete"
  /\ data # Null
  /\ Get(data).design = <<"refine", 1>>
  /\ Get(data).verification # Null
  /\ Get(Get(data).verification).score = 99
  /\ Get(Get(data).verification).paceFriction = FALSE

\* C7: a visual mutation or copy polish applied to the published draft while
\* its cycle was in flight is still in the draft when the cycle completes.
C7_EditsSurvive ==
  [][\A r \in Runs :
       (Completes(r) /\ data # Null) =>
         /\ data' # Null
         /\ Get(data).design[1] = "mutate" => Get(data').design = Get(data).design
         /\ Get(data).content.headline[1] = "polish" =>
              Get(data').content.headline = Get(data).content.headline
         /\ Get(data).content.subheadline[1] = "polish" =>
              Get(data').content.subheadline = Get(data).content.subheadline]_vars

\* C8: recording an interaction starts a drift check exactly when the length
\* of the list before the append is a nonzero multiple of 3; the check gets
\* the list with the new event; nothing else starts a drift check.
C8_DriftCadence ==
  [][/\ Records =>
          /\ (drifts' \ drifts # {}) <=> (Len(memory) \in {3 * k : k \in 1..(MaxStored + MaxCommands)})
          /\ Len(memory') = Len(memory) + 1
     /\ \A d \in drifts' \ drifts :
          /\ Records
          /\ d.currentHistory = memory'
          /\ d.currentHistory[Len(memory')].id = nextId']_vars

C8_Witness ==
  /\ Len(memory) = 7
  /\ \E d \in drifts : d.currentHistory = memory

\* C9, as claimed: appending a 3rd event to a list of 2 starts a drift check
\* on the 3 events.
C9_ThirdEventChecks ==
  [][(Records /\ Len(memory) = 2) =>
        \E d \in drifts' \ drifts : Len(d.currentHistory) = 3]_vars

\* C9, amended: appending a 4th event to a list of 3 starts exactly one drift
\* check, on all 4 events; a check starts on appending the 4th, 7th, 10th, ...
\* event and on no other.
C9_FourthEventChecks ==
  [][Records =>
        IF Len(memory') > 1 /\ Len(memory') % 3 = 1
          THEN /\ Cardinality(drifts' \ drifts) = 1
               /\ \A d \in drifts' \ drifts : d.currentHistory = memory'
          ELSE drifts' = drifts]_vars

C9_Witness ==
  /\ Len(memory) = 4
  /\ Cardinality(drifts) = 1
  /\ \A d \in drifts : Len(d.currentHistory) = 4

\* C10: when plan, draft, remix, verify or refine throws, the cycle issues no
\* further call, the stage becomes IDLE with a failure entry in the log, and
\* the draft in state is left as it was.
C10_FailureAborts ==
  [][\A r \in Runs :
       /\ Fails(r) =>
            /\ stage' = "IDLE"
            /\ <<"IDLE", "Orchestration failed.">> \in logs'
            /\ data' = data
            /\ runs'[r].pending = {}
       /\ runs[r].pc = "failed" => runs'[r] = runs[r]]_vars

C10_Witness ==
  /\ runs[1].pc = "failed"
  /\ stage = "IDLE"
  /\ data # Null
  /\ Get(data).content.heroImageUrl = Url(1, 0)
  /\ <<"IDLE", "Orchestration failed.">> \in logs

\* The step in which an image request of cycle r fails (the error is written
\* to the console), and the step in which an image call of cycle r gets a
\* response without an image part.
ImageFails(r) == nfailed' = nfailed + 1 /\ runs'[r] # runs[r]
ImageEmpty(r) == nempty' = nempty + 1 /\ nfailed' = nfailed /\ runs'[r] # runs[r]

\* The failure entry of the catch block is written by this step.
FailureLogged == <<"IDLE", "Orchestration failed.">> \in logs' \ logs

\* C11, as claimed: a failure of an image request in the asset phase aborts the
\* cycle: the cycle goes to its catch block (no verification) and the stage
\* becomes IDLE.
C11_AssetFailureAborts ==
  [][\A r \in Runs :
       ImageFails(r) => runs'[r].pc = "failed" /\ stage' = "IDLE"]_vars

\* C11, amended: a failure of an image request in the asset phase does not
\* abort the cycle: the call returns the empty image, which is written to the
\* hero or concept field; no failure is logged, the stage is not set to IDLE,
\* and the cycle goes on to its remaining image tasks or to verification.
C11_AssetFailureTolerated ==
  [][\A r \in Runs :
       ImageFails(r) =>
         /\ runs'[r].pc \in {"assets", "verify"}
         /\ ~FailureLogged
         /\ stage' = "IDLE" => stage = "IDLE"
         /\ IF runs[r].pc = "hero"
              THEN Get(runs'[r].currentDraft).content.heroImageUrl = EmptyUrl
              ELSE \A idx \in runs[r].pending \ runs'[r].pending : runs'[r].urls[idx] = EmptyUrl]_vars

C11_Witness ==
  /\ nruns = 1
  /\ runs[1].pc = "verify"
  /\ nfailed = 1
  /\ stage = "VERIFYING"
  /\ \E i \in DOMAIN runs[1].urls : runs[1].urls[i] = EmptyUrl

\* C12: when an image call gets a response without an image part, the hero or
\* concept field is set to the empty value, nothing is thrown (the cycle does
\* not fail), every other concept's entry is left as it was, and the cycle goes
\* on to its remaining image tasks or to verification.
C12_EmptyImageTolerated ==
  [][\A r \in Runs :
       (ImageEmpty(r) /\ data # Null) =>
         /\ runs'[r].pc \in {"assets", "verify"}
         /\ ~FailureLogged
         /\ data' # Null
         /\ IF runs[r].pc = "hero"
              THEN /\ Get(data').content.heroImageUrl = EmptyUrl
                   /\ Get(data').content.productConcepts = Get(data).content.productConcepts
              ELSE \A idx \in runs[r].pending \ runs'[r].pending :
                     /\ runs'[r].urls[idx] = EmptyUrl
                     /\ Get(data').content.productConcepts[idx].imageUrl = EmptyUrl
                     /\ Get(data').content.heroImageUrl = Get(data).content.heroImageUrl
                     /\ \A j \in 1..Len(Get(data).content.productConcepts) :
                          j # idx => Get(data').content.productConcepts[j]
                                       = Get(data).content.productConcepts[j]]_vars

C12_Witness ==
  /\ nruns = 1
  /\ runs[1].pc = "verify"
  /\ nempty = 1 /\ nfailed = 0
  /\ data # Null
  /\ Get(data).content.productConcepts[1].imageUrl = EmptyUrl
  /\ Get(data).content.productConcepts[2].imageUrl = Url(1, 2)

\* The step in which cycle r calls verifyDraft.
VerifyCalled(r) == runs'[r].pc = "verify" /\ runs[r].pc # "verify"

\* C13: a cycle calls verifyDraft only when every product-image task of the
\* cycle has completed (none is pending, every slot has its result), each
\* completion having patched its result into the draft in state; while a
\* cycle is at verification or refinement none of its image tasks is pending.
C13_VerifyAfterFanOut ==
  [][\A r \in Runs :
       /\ VerifyCalled(r) =>
            /\ runs'[r].pending = {}
            /\ \A i \in DOMAIN runs'[r].urls : runs'[r].urls[i] # Unset
       /\ runs[r].pc \in {"verify", "refine"} => runs[r].pending = {}
       /\ \A idx \in runs[r].pending \ runs'[r].pending :
            data # Null =>
              /\ data' # Null
              /\ Get(data').content.productConcepts[idx].imageUrl = runs'[r].urls[idx]]_vars

C13_Witness ==
  /\ nruns = 1
  /\ runs[1].pc = "verify"
  /\ runs[1].urls = <<Url(1, 1), Url(1, 2)>>
  /\ data # Null
  /\ \A i \in 1..2 : Get(data).content.productConcepts[i].imageUrl = Url(1, i)

\* The order of the awaited calls of a cycle.
PcRank(pc) ==
  CASE pc = "idle" -> 0
    [] pc = "plan" -> 1
    [] pc \in {"draft", "remix"} -> 2
    [] pc = "hero" -> 3
    [] pc = "assets" -> 4
    [] pc = "verify" -> 5
    [] pc = "refine" -> 6
    [] pc \in {"complete", "failed"} -> 7

\* C14: a cycle moves forward only (so verifyDraft and refineDraft are called
\* at most once each and no verification follows a refinement); refineDraft is
\* called exactly when verifyDraft returned aligned = false: a returned
\* aligned result completes the cycle with that result attached.
C14_OneShotVerifyRefine ==
  [][\A r \in Runs :
       runs'[r].pc # runs[r].pc =>
         /\ PcRank(runs'[r].pc) > PcRank(runs[r].pc)
         /\ runs'[r].pc = "refine" =>
              /\ runs[r].pc = "verify"
              /\ ~Get(runs'[r].verification).aligned
         /\ (runs[r].pc = "verify" /\ runs'[r].pc = "complete") =>
              /\ data' # Null
              /\ Get(Get(data').verification).aligned
         /\ runs[r].pc = "refine" => runs'[r].pc \in {"complete", "failed"}]_vars

C14_Witness ==
  /\ runs[1].pc = "refine"
  /\ Get(runs[1].verification).score = 60
  /\ stage = "REFINING"

\* C15: when verifyDraft returns aligned = true the cycle completes in that
\* step without a refinement: the stage becomes COMPLETE and the draft in state
\* is the draft as it was with the returned result as its verification, the
\* design and the content untouched.
C15_AlignedAttaches ==
  [][\A r \in Runs :
       (runs[r].pc = "verify" /\ runs'[r].pc = "complete" /\ data # Null) =>
         /\ stage' = "COMPLETE"
         /\ \E v \in VerResults :
              /\ v.aligned
              /\ data' = Some([Get(data) EXCEPT !.verification = Some(v)])]_vars

C15_Witness ==
  /\ nruns = 1
  /\ runs[1].pc = "complete"
  /\ stage = "COMPLETE"
  /\ data # Null
  /\ Get(data).design = <<"draft", 1>>
  /\ Get(data).content.heroImageUrl = Url(1, 0)
  /\ Get(data).verification # Null
  /\ Get(Get(data).verification).score = 92

\* C16: when the session starts with N > 0 events stored for the user, the
\* Planning call of the first cycle gets the min(N, 10) most recent of them in
\* their stored order.
C16_PlanGetsStoredEvents ==
  [][(nruns = 0 /\ nruns' = 1) =>
       LET stored == storage[userProfile.name]
       IN (stored # Null /\ Len(Get(stored)) > 0) =>
            /\ runs'[1].pc = "plan"
            /\ PlanHistory(runs'[1]) = LastEvents(Get(stored), HistoryWindow)]_vars

\* C17: a drift check changes the profile only when its result has
\* hasDrifted = true and a patch; when hasDrifted is false, when the patch is
\* absent or when the call throws, the profile, the alert, the stage and the
\* log are left as they were; nothing else changes the profile.
C17_DriftGuard ==
  [][/\ \A d \in drifts :
          /\ \A drift \in DriftAnswers(d.currentHistory) :
               (DriftReturn(d, drift) /\ ~(drift.hasDrifted /\ drift.newProfile # Null)) =>
                  UNCHANGED <<userProfile, driftAlert, stage, logs>>
          /\ DriftThrow(d) => UNCHANGED <<userProfile, driftAlert, stage, logs>>
     /\ userProfile' # userProfile =>
          \E d \in drifts : \E drift \in DriftAnswers(d.currentHistory) :
             drift.hasDrifted /\ drift.newProfile # Null /\ DriftReturn(d, drift)]_vars

C17_Witness ==
  /\ <<"IDLE", "Analyzing long-horizon preference drift...">> \in logs
  /\ drifts = {}
  /\ Len(memory) = 4
  /\ userProfile = InitialProfile
  /\ driftAlert = Null
  /\ stage # "DRIFT_DETECTED"

\* Durable storage holds lists of memory events and nothing else.
StorageIsMemoryOnly ==
  \A k \in DOMAIN storage :
    storage[k] # Null =>
      \A i \in 1..Len(Get(storage[k])) : DOMAIN Get(storage[k])[i] = {"id", "type"}

\* C18: a drift result with hasDrifted = true and a patch gives every field of
\* the patch its patch value in the profile and leaves every other field as it
\* was, and sets the alert to the reasoning and the pattern; a set alert is
\* only cleared by the user's dismissal, and is never in durable storage.
C18_DriftMerge ==
  /\ [][/\ \A d \in drifts : \A drift \in DriftAnswers(d.currentHistory) :
             (DriftReturn(d, drift) /\ drift.hasDrifted /\ drift.newProfile # Null) =>
                LET patch == Get(drift.newProfile)
                IN /\ DOMAIN userProfile' = DOMAIN userProfile \cup DOMAIN patch
                   /\ \A k \in DOMAIN patch : userProfile'[k] = patch[k]
                   /\ \A k \in DOMAIN userProfile \ DOMAIN patch : userProfile'[k] = userProfile[k]
                   /\ driftAlert' = Some([message |-> drift.reasoning,
                                          pattern |-> drift.detectedPattern])
        /\ (driftAlert # Null /\ driftAlert' = Null) => DismissDrift]_vars
  /\ []StorageIsMemoryOnly

C18_Witness ==
  /\ driftAlert = Some([message |-> "faster", pattern |-> "punchy"])
  /\ userProfile.pace = 5
  /\ userProfile.tone = "calm"
  /\ userProfile.name = "ann"
  /\ storage[userProfile.name] = Some(memory)
  /\ Len(memory) = 4

IsPrefix(a, b) == Len(a) <= Len(b) /\ SubSeq(b, 1, Len(a)) = a

\* The step is a tracked action of the given type (a command that was
\* accepted: it used up the user's command, and it is not the wipe).
Tracked(type) ==
  /\ ncmds' = ncmds + 1
  /\ CASE type = "REMIX" -> HandleRemix
       [] type = "CHAT" -> \E chatInput \in Messages : HandleChat(chatInput)
       [] type = "VISUAL_EDIT" -> \E instruction \in Instructions : HandleVisualMutation(instruction)
       [] type = "COPY_EDIT" -> \E t \in CopyTargets, tone \in Tones : HandleCopyPolish(t, tone)

\* C19: in every step but the wipe the memory list before the step is a prefix
\* of the list after it, and every tracked action (remix, chat, visual
\* mutation, copy polish) appends exactly one event, of its type, at the end.
C19_AppendOnly ==
  [][/\ ~ClearMemory => IsPrefix(memory, memory')
     /\ \A type \in {"REMIX", "CHAT", "VISUAL_EDIT", "COPY_EDIT"} :
          Tracked(type) =>
            /\ Len(memory') = Len(memory) + 1
            /\ SubSeq(memory', 1, Len(memory)) = memory
            /\ memory'[Len(memory')].type = type
            /\ \A i \in 1..Len(memory) : memory[i].id # memory'[Len(memory')].id]_vars

C19_Witness ==
  /\ Len(memory) = 5
  /\ memory[3].id = 0 - 3
  /\ memory[4].type = "COPY_EDIT"
  /\ memory[5].type = "REMIX"

\* C20: once the component has mounted, the list stored under the user's name
\* is the memory list in state, after every step (the load at mount, every
\* append, the wipe); the wipe leaves both empty.
C20_StorageMirrorsMemory ==
  /\ [](nruns > 0 => storage[userProfile.name] = Some(memory))
  /\ [][/\ (nruns = 0 /\ nruns' = 1) =>
             memory' = (IF storage[userProfile.name] = Null THEN <<>>
                        ELSE Get(storage[userProfile.name]))
        /\ (ClearMemory /\ memory' # memory) =>
             /\ memory' = <<>>
             /\ storage'[userProfile.name] = Some(<<>>)]_vars

C20_Witness ==
  /\ <<"IDLE", "Memory Core wiped.">> \in logs
  /\ Len(memory) = 1
  /\ memory[1].id = 1
  /\ storage[userProfile.name] = Some(memory)

\* C21: chat, visual mutation and copy polish append their memory event in
\* the step that issues the external call; neither that step nor the step in
\* which the call fails changes the draft or the stage, and the failing step
\* leaves the memory list with the event recorded for the attempt.
C21_FailedEditKeepsState ==
  [][/\ \A type \in {"CHAT", "VISUAL_EDIT", "COPY_EDIT"} :
          Tracked(type) =>
            /\ memory' = Append(memory, [id |-> nextId', type |-> type])
            /\ IF type = "CHAT" THEN chat = Null /\ chat' # Null
                                ELSE edit = Null /\ edit' # Null
            /\ data' = data
            /\ stage' = stage
     /\ (ChatThrow \/ EditThrow) =>
          /\ data' = data
          /\ stage' = stage
          /\ memory' = memory]_vars

\* C22: a chat call is issued only with a draft and a message that is not
\* blank, and the step that issues it appends the message as typed to the chat
\* history and one CHAT event to the memory list; a blank message or a missing
\* draft changes nothing.  When the call returns, the reply is appended right
\* after that message; when it throws, the history stays as it is and only the
\* busy flag is cleared.
C22_ChatProtocol ==
  [][/\ (chat = Null /\ chat' # Null) =>
          /\ data # Null
          /\ Trim(Get(chat').userMsg) # <<>>
          /\ chatHistory' = Append(chatHistory, [role |-> "user", text |-> Get(chat').userMsg])
          /\ Len(memory') = Len(memory) + 1
          /\ SubSeq(memory', 1, Len(memory)) = memory
          /\ memory'[Len(memory')].type = "CHAT"
     /\ \A chatInput \in Messages :
          (HandleChat(chatInput) /\ (Trim(chatInput) = <<>> \/ data = Null)) => UNCHANGED vars
     /\ \A response \in Replies :
          ChatReturn(response) =>
            /\ Len(chatHistory) > 0
            /\ chatHistory[Len(chatHistory)] = [role |-> "user", text |-> Get(chat).userMsg]
            /\ chatHistory' = Append(chatHistory, [role |-> "persona", text |-> response])
     /\ ChatThrow =>
          /\ chatHistory' = chatHistory
          /\ ~isChatting'
          /\ UNCHANGED <<data, stage, logs, memory, storage, userProfile, runs>>]_vars

C22_Witness ==
  /\ chat = Null
  /\ ~isChatting
  /\ chatHistory = <<[role |-> "user", text |-> <<"h", "i", " ">>],
                     [role |-> "persona", text |-> <<"o", "k">>]>>
  /\ Len(memory) > 0
  /\ memory[Len(memory)].type = "CHAT"

\* C23: when the calibration call fails (a failed request, a response that
\* does not parse) the inferred profile becomes the default
\* (personality Creative, interests General, tone Friendly, pace 3) and the
\* calibrating flag is cleared; every calibration ends with an inferred
\* profile, and confirming the default gives App a profile with these values
\* and the name and bio of the form.
C23_CalibrationFallback ==
  [][/\ \A outcome \in CalibrationOutcomes :
          (CalibrationDone(outcome) /\ outcome.state = "rejected") =>
            /\ inferredProfile' = Some([personality |-> "CREATIVE", interests |-> <<"General">>,
                                        tone |-> "Friendly", pace |-> 3])
            /\ ~isCalibrating'
     /\ (isCalibrating /\ ~isCalibrating') => inferredProfile' # Null
     /\ (HandleConfirm /\ inferredProfile = Some(FallbackProfile) /\ profile' # Null) =>
          profile' = Some([name |-> name, bio |-> bio, personality |-> "CREATIVE",
                           interests |-> <<"General">>, tone |-> "Friendly", pace |-> 3])]_vars

C23_Witness ==
  /\ profile # Null
  /\ Get(profile).name = "ann"
  /\ Get(profile).personality = "CREATIVE"
  /\ Get(profile).interests = <<"General">>
  /\ Get(profile).tone = "Friendly"
  /\ Get(profile).pace = 3
  /\ ~isCalibrating

\* C24: whenever hasApiKey() is false, a generative call throws the
\* missing-credential error and sends no request, after any calls of
\* updateApiKey and clearLocalKey.
C24_NoKeyNoRequest ==
  [][\A fn \in ServiceCalls :
       (Generate(fn) /\ ~HasApiKey) =>
          /\ call' = Null
          /\ result' = Some(Rejected(MissingKey))]_vars

\* C25: a structured call returns the data of the response text without its
\* fences, or throws; a response without parseable data (an empty or missing
\* text included) makes the call throw.
C25_ParseOrFail ==
  [][\A text \in ResponseTexts :
       Respond(text) =>
         LET cleaned == IF text = Null THEN <<>> ELSE Trim(StripFences(Get(text)))
         IN IF IsJson(cleaned)
              THEN result' = Some(Fulfilled(Decode(cleaned[1])))
              ELSE result' # Null /\ Get(result').state = "rejected"]_vars

StageRank(st) ==
  CASE st = "PLANNING" -> 1
    [] st = "DRAFTING" -> 2
    [] st = "GENERATING_ASSETS" -> 3
    [] st = "VERIFYING" -> 4
    [] st = "REFINING" -> 5
    [] st = "COMPLETE" -> 6
    [] OTHER -> 0

\* C27: while a cycle is in flight the stage only moves forward along
\* PLANNING, DRAFTING, GENERATING_ASSETS, VERIFYING, REFINING, COMPLETE, or to
\* IDLE when a cycle fails; a cycle completes only from its verification or
\* its refinement, and is verified only after its asset stage.
C27_StageForward ==
  [][/\ (\E r \in Runs : InFlight(r)) =>
          \/ stage' = stage
          \/ stage' = "IDLE" /\ \E r \in Runs : Fails(r)
          \/ StageRank(stage') > StageRank(stage)
     /\ \A r \in Runs :
          /\ Completes(r) => runs[r].pc \in {"verify", "refine"}
          /\ (runs[r].pc # "verify" /\ runs'[r].pc = "verify") =>
                /\ runs[r].pc \in {"hero", "assets"}
                /\ <<"GENERATING_ASSETS", "Assets generated.">> \in logs']_vars

\* C28: the step of a cycle that issues its first image request publishes the
\* new draft without any image URL (no request of the cycle is out before
\* it); with a hero prompt that request is the hero's, and the product-image
\* requests are issued in the step in which the hero call has returned and its
\* result has been patched into the draft in state.
C28_PublishThenHeroThenProducts ==
  [][\A r \in Runs :
       /\ runs[r].pc \in {"idle", "plan", "draft", "remix", "hero"} => runs[r].pending = {}
       /\ (runs[r].pc \in {"draft", "remix"} /\ runs'[r].pc \in {"hero", "assets", "verify"}) =>
            /\ data' = runs'[r].currentDraft
            /\ data' # Null
            /\ Get(data').content.heroImageUrl = Unset
            /\ \A i \in 1..Len(Get(data').content.productConcepts) :
                 Get(data').content.productConcepts[i].imageUrl = Unset
            /\ Get(data').content.heroImagePrompt <=> runs'[r].pc = "hero"
       /\ (runs[r].pc # "assets" /\ runs'[r].pc = "assets") =>
            \/ /\ runs[r].pc = "hero"
               /\ data' # Null
               /\ Get(data').content.heroImageUrl = Get(runs'[r].currentDraft).content.heroImageUrl
               /\ Get(data').content.heroImageUrl # Unset
            \/ /\ runs[r].pc \in {"draft", "remix"}
               /\ ~Get(runs'[r].currentDraft).content.heroImagePrompt]_vars

C28_Witness ==
  /\ runs[1].pc = "assets"
  /\ runs[1].pending = {1, 2}
  /\ data # Null
  /\ Get(data).content.heroImagePrompt
  /\ Get(data).content.heroImageUrl = Url(1, 0)
  /\ \A i \in 1..2 : Get(data).content.productConcepts[i].imageUrl = Unset

\* C29: a remix requested while a blueprint exists awaits remixDraft, called
\* with the draft and the blueprint in state at the request, and the cycle it
\* starts never awaits createBlueprint or generateDraft and never comes back
\* to remixDraft; no step of that cycle changes the blueprint; the request
\* appends one REMIX event and the cycle's later steps record nothing.
C29_RemixReusesBlueprint ==
  [][/\ (HandleRemix /\ nruns' = nruns + 1 /\ blueprint # Null) =>
          /\ runs'[nruns'].pc = "remix"
          /\ runs'[nruns'].data = data
          /\ runs'[nruns'].bp = blueprint
          /\ data # Null
          /\ blueprint' = blueprint
          /\ memory' = Append(memory, [id |-> nextId', type |-> "REMIX"])
     /\ \A r \in Runs :
          (runs[r].isRemix /\ runs'[r] # runs[r]) =>
            /\ runs'[r].pc \notin {"plan", "draft", "remix"}
            /\ blueprint' = blueprint
            /\ memory' = memory]_vars

C29_Witness ==
  /\ nruns = 2
  /\ runs[2].isRemix
  /\ runs[2].pc = "remix"
  /\ runs[2].data = data
  /\ data # Null
  /\ runs[2].bp = blueprint
  /\ blueprint = Some(<<"blueprint", 1>>)
  /\ memory = <<[id |-> 1, type |-> "REMIX"]>>

\* C30: the cycle of the mount starts from an empty log (the entry of the
\* load effect is gone, only entries of the planning stage are there), without
\* draft, blueprint and chat history, and leaves the profile and the loaded
\* memory list as they are; a remix keeps the log, the blueprint, the chat
\* history and the draft, and no later step of its cycle changes the draft
\* before the step that publishes the new one.
C30_ResetOnFreshCycleOnly ==
  [][/\ (nruns = 0 /\ nruns' = 1) =>
          /\ \A entry \in logs' : entry[1] = "PLANNING"
          /\ data' = Null
          /\ blueprint' = Null
          /\ chatHistory' = <<>>
          /\ userProfile' = userProfile
          /\ memory' = (IF storage[userProfile.name] = Null THEN <<>>
                        ELSE Get(storage[userProfile.name]))
     /\ (HandleRemix /\ nruns' = nruns + 1) =>
          /\ logs \subseteq logs'
          /\ blueprint' = blueprint
          /\ chatHistory' = chatHistory
          /\ data' = data
          /\ data # Null
     /\ \A r \in Runs :
          (runs[r].pc = "remix" /\ runs'[r] # runs[r]) =>
             \/ runs'[r].pc = "failed" /\ data' = data
             \/ data' = runs'[r].currentDraft /\ data' # Null]_vars

C30_Witness ==
  /\ nruns = 2
  /\ runs[2].pc = "remix"
  /\ Len(chatHistory) = 2
  /\ data # Null
  /\ Get(data).design = <<"draft", 1>>
  /\ blueprint = Some(<<"blueprint", 1>>)
  /\ <<"PLANNING", "Analyzing vector">> \in logs
  /\ <<"IDLE", "Long-Horizon Memory loaded">> \notin logs
  /\ Len(memory) = 4

\* C31: a copy polish reads the text it sends from the target field of the
\* draft shown at the request; when polishCopy returns, the target field
\* (headline, or subheadline) of the draft in state gets the returned text and
\* nothing else of the draft changes: the other text field, the CTA, the
\* features, the product concepts, the image URLs, the design and the
\* verification are as they were.
C31_PolishFrame ==
  [][/\ \A type \in CopyTargets, tone \in Tones :
          (HandleCopyPolish(type, tone) /\ edit' # Null) =>
             /\ Get(edit').target = type
             /\ Get(edit').input = IF type = "headline" THEN Get(data).content.headline
                                                        ELSE Get(data).content.subheadline
     /\ (EditReturn /\ Get(edit).kind = "copy" /\ data # Null) =>
          /\ data' # Null
          /\ \E newText \in {<<"polish", Get(edit).instruction>>, Get(edit).input} :
               Get(data') = IF Get(edit).target = "headline"
                              THEN [Get(data) EXCEPT !.content.headline = newText]
                              ELSE [Get(data) EXCEPT !.content.subheadline = newText]]_vars

C31_Witness ==
  /\ edit = Null
  /\ ~isMutating
  /\ data # Null
  /\ Get(data).content.subheadline = <<"polish", "punchy">>
  /\ Get(data).content.headline = <<"draft", 1>>
  /\ Get(data).content.ctaText = <<"draft", 1>>
  /\ Get(data).content.heroImageUrl = Url(1, 0)
  /\ Get(data).verification # Null
  /\ <<"REFINING", "Copy polished">> \in logs

\* C32: when mutateDesign returns, the design of the draft in state is the
\* returned design and the content (copy, concepts, image URLs) and the
\* verification are as they were; a visual mutation is accepted only with a
\* draft (it sends the design of that draft): without one no event is
\* recorded and no call is issued.
C32_MutationFrame ==
  [][/\ (EditReturn /\ Get(edit).kind = "visual" /\ data # Null) =>
          /\ data' = Some([Get(data) EXCEPT !.design = <<"mutate", Get(edit).instruction>>])
          /\ Get(data').content = Get(data).content
          /\ Get(data').verification = Get(data).verification
     /\ (edit = Null /\ edit' # Null /\ Get(edit').kind = "visual") =>
          /\ data # Null
          /\ Get(edit').input = Get(data).design
          /\ memory' = Append(memory, [id |-> nextId', type |-> "VISUAL_EDIT"])
     /\ (Records /\ memory'[Len(memory')].type = "VISUAL_EDIT") =>
          data # Null /\ edit = Null /\ edit' # Null
     /\ \A instruction \in Instructions :
          (HandleVisualMutation(instruction) /\ data = Null) => UNCHANGED vars]_vars

C32_Witness ==
  /\ edit = Null
  /\ ~isMutating
  /\ data # Null
  /\ Get(data).design = <<"mutate", "dark mode">>
  /\ Get(data).content.headline = <<"draft", 1>>
  /\ Get(data).content.productConcepts[2].imageUrl = Url(1, 2)
  /\ Get(data).verification # Null
  /\ memory = <<[id |-> 1, type |-> "VISUAL_EDIT"]>>

\* enum PersonalityType
PersonalityTypes == {"ANALYTICAL", "CREATIVE", "ZEN", "HIGH_ENERGY", "EMPATHETIC",
                     "AUTHORITATIVE", "WHIMSICAL"}

\* C33: the profile of the dashboard always has a pace from 1 to 5 and one of
\* the 7 personalities, as created from any calibration result and after any
\* drift patch.
C33_ProfileInRange ==
  profile # Null =>
    /\ userProfile.pace \in 1..5
    /\ userProfile.personality \in PersonalityTypes

\* A call of the application is awaiting its response.
CallPending ==
  \/ isCalibrating
  \/ \E r \in Runs : InFlight(r)
  \/ drifts # {}
  \/ edit # Null
  \/ chat # Null
  \/ isGeneratingThumbnail

\* C34: while the application has no key, no client exists, no profile is
\* inferred or confirmed (neither the onboarding form nor a dashboard is up)
\* and no call is pending; the key is accepted only when its trimmed length
\* exceeds 10, and the step that accepts it stores the trimmed key, keeps it as
\* the key in use and constructs the client with it.
C34_KeyGate ==
  /\ [](~hasKey =>
         /\ ai = Null /\ apiKey = NoKey
         /\ profile = Null /\ inferredProfile = Null
         /\ name = "" /\ bio = ""
         /\ nsessions = 0 /\ nruns = 0
         /\ ~CallPending)
  /\ [][/\ (~hasKey /\ hasKey') =>
             /\ Len(Trim(keyInput)) > MinKeyLength
             /\ storedKey' = Some(Trim(keyInput))
             /\ apiKey' = Trim(keyInput)
             /\ ai' = NewClient(Trim(keyInput))
        /\ (~hasKey /\ <<apiKey, storedKey, ai>>' # <<apiKey, storedKey, ai>>) => hasKey'
        /\ (HandleSaveKey /\ Len(Trim(keyInput)) <= MinKeyLength) => UNCHANGED vars]_vars

C34_Witness ==
  /\ envKey = NoKey
  /\ hasKey
  /\ keyInput = <<" ">> \o Key(MinKeyLength + 2) \o <<" ">>
  /\ storedKey = Some(Key(MinKeyLength + 2))
  /\ apiKey = Key(MinKeyLength + 2)
  /\ ai = NewClient(Key(MinKeyLength + 2))
  /\ profile # Null
  /\ \E r \in Runs : InFlight(r)

\* C35: once a cycle has completed with the stage at COMPLETE, and while no
\* cycle is in flight and no remix is requested, no step (chat, visual
\* mutation, copy polish, thumbnail, memory wipe, start or end of a drift
\* check) moves the stage away from COMPLETE.
C35_CompleteIsStable ==
  [][(/\ stage = "COMPLETE"
      /\ \E r \in Runs : runs[r].pc = "complete"
      /\ \A r \in Runs : ~InFlight(r)
      /\ nruns' = nruns) => stage' = "COMPLETE"]_vars

\* The run that generated an image (0: no image).
RunOf(url) == IF Truthy(url) THEN (url % 100) \div 10 ELSE 0

\* C36: when a remix has completed, the image shown for the hero and for each
\* concept of the draft is an image generated in the cycle of the remix (or
\* an edit of one), or none: never an image, or an edit of an image, of the
\* draft before.
C36_RemixShowsNewImages ==
  (nruns > 1 /\ runs[nruns].pc = "complete" /\ data # Null) =>
     \A slot \in 0..Len(Get(data).content.productConcepts) :
        RunOf(Shown(slot)) \in {0, nruns}

\* The step in which cycle r issues a call that takes the profile.
CallsWithProfile(r) ==
  /\ runs'[r].pc # runs[r].pc
  /\ runs'[r].pc \in {"plan", "draft", "remix", "verify", "refine"}

\* C37: every call of a cycle that takes the profile (plan, draft or remix,
\* verify, refine) is given the profile that was in state in the step that
\* started the cycle; a drift patch changes the profile in state and leaves
\* the cycles as they are, so the later calls of a cycle in flight still get
\* the profile of its start.
C37_OneProfilePerCycle ==
  [][/\ \A r \in Runs :
          /\ (CallsWithProfile(r) /\ runs[r].pc = "idle") =>
                /\ runs'[r].userProfile = Some(userProfile)
                /\ runs'[r].sent = Some(userProfile)
          /\ (CallsWithProfile(r) /\ runs[r].pc # "idle") =>
                /\ runs'[r].userProfile = runs[r].userProfile
                /\ runs'[r].sent = runs[r].userProfile
          /\ (InFlight(r) /\ InFlight(r)') => runs'[r].userProfile = runs[r].userProfile
     /\ userProfile' # userProfile => (runs' = runs \/ profile' # profile)]_vars

C37_Witness ==
  /\ runs[1].pc = "verify"
  /\ runs[1].sent = Some(InitialProfile)
  /\ userProfile.pace = 5
  /\ InitialProfile.pace = 1
  /\ driftAlert # Null

C39_MemoryIsolation ==
  [][/\ profile # Null =>
          \A k \in DOMAIN storage : k # Get(profile).name => storage'[k] = storage[k]
     /\ (nruns = 0 /\ nruns' = 1) =>
          memory' = (IF storage[Get(profile).name] = Null THEN <<>>
                     ELSE Get(storage[Get(profile).name]))]_vars

====
